---- MODULE Spec2Model ----
(***************************************************************************)
(* Listing cache of the S3/R2 explorer (util/cache.ts, class S3Cache), the  *)
(* tree and file system reads over it and the command handlers that change *)
(* the bucket, as a state machine.                                         *)
(* A JavaScript string is a sequence of one-character                      *)
(* strings, so that template strings, split, join, slice, endsWith and     *)
(* startsWith are computed character by character; the value undefined is  *)
(* the one-element sequence Undefined, which no string equals.             *)
(***************************************************************************)
EXTENDS Integers, Sequences, FiniteSets, Bags, TLC

(***************************************************************************)
(* Bounds of the model                                                     *)
(***************************************************************************)
\* largest value of the clock (milliseconds)
MaxTime == 300001
\* largest number of entries the cache holds
MaxEntries == 3
\* largest number of listing requests in flight
MaxReads == 2
\* largest number of files of one upload
MaxFiles == 2
\* largest number of items of one batch
MaxItems == 3
\* largest number of file change events handed to _fireSoon
MaxEvents == 2

(***************************************************************************)
(* JavaScript values                                                       *)
(***************************************************************************)
Undefined == <<"undefined">>

\* truthiness of an optional string: undefined and "" are falsy
Truthy(s) == s # Undefined /\ s # <<>>

\* (s || "")
OrEmpty(s) == IF Truthy(s) THEN s ELSE <<>>

\* (s || undefined)
OrUndefined(s) == IF Truthy(s) THEN s ELSE Undefined

\* s.endsWith(t), s.startsWith(t)
endsWith(s, t) == Len(s) >= Len(t) /\ SubSeq(s, Len(s) - Len(t) + 1, Len(s)) = t
startsWith(s, t) == Len(s) >= Len(t) /\ SubSeq(s, 1, Len(t)) = t

\* s.split(sep) for a one-character separator
RECURSIVE split(_, _)
split(s, sep) ==
  IF \A i \in 1..Len(s) : s[i] # sep
  THEN <<s>>
  ELSE LET i == CHOOSE j \in 1..Len(s) : s[j] = sep /\ \A k \in 1..(j - 1) : s[k] # sep
       IN  <<SubSeq(s, 1, i - 1)>> \o split(SubSeq(s, i + 1, Len(s)), sep)

\* parts.join(sep)
RECURSIVE join(_, _)
join(parts, sep) ==
  IF Len(parts) = 0 THEN <<>>
  ELSE IF Len(parts) = 1 THEN parts[1]
  ELSE parts[1] \o <<sep>> \o join(Tail(parts), sep)

\* arr.findIndex(pred) for the two predicates of append, 1-based
findIndexKey(arr, k) == CHOOSE i \in 1..Len(arr) : arr[i].key = k /\ \A j \in 1..(i - 1) : arr[j].key # k
findIndexPrefix(arr, p) == CHOOSE i \in 1..Len(arr) : arr[i].prefix = p /\ \A j \in 1..(i - 1) : arr[j].prefix # p

\* arr.filter(keep) where keep is a set of indices
RECURSIVE filterIdx(_, _, _)
filterIdx(arr, keep, i) ==
  IF i > Len(arr) THEN <<>>
  ELSE (IF i \in keep THEN <<arr[i]>> ELSE <<>>) \o filterIdx(arr, keep, i + 1)

(***************************************************************************)
(* S3Cache                                                                 *)
(***************************************************************************)
DEFAULT_TTL == 5 * 60 * 1000

\* the global instance is constructed without an argument
ttl == DEFAULT_TTL

\* Map.delete for a set of keys
mapDelete(c, ks) == [k \in (DOMAIN c) \ ks |-> c[k]]

\* Map.set
mapSet(c, k, e) == [x \in (DOMAIN c) \cup {k} |-> IF x = k THEN e ELSE c[x]]

\* a key that leaves the prefix out
getCacheKey_NoPrefix(bucket, prefix) == bucket \o <<":">>

getCacheKey(bucket, prefix) == bucket \o <<":">> \o OrEmpty(prefix)

\* a get that reports a stale entry absent and leaves it in the cache
get_NoEvict(c, t, bucket, prefix) ==
  LET key == getCacheKey(bucket, prefix) IN
  IF key \notin DOMAIN c THEN [result |-> <<>>, cache |-> c]
  ELSE IF t - c[key].lastFetched > ttl THEN [result |-> <<>>, cache |-> c]
  ELSE [result |-> <<c[key]>>, cache |-> c]

\* a get that takes an entry of age ttl for stale
get_StaleAtTtl(c, t, bucket, prefix) ==
  LET key == getCacheKey(bucket, prefix) IN
  IF key \notin DOMAIN c THEN [result |-> <<>>, cache |-> c]
  ELSE IF t - c[key].lastFetched >= ttl THEN [result |-> <<>>, cache |-> mapDelete(c, {key})]
  ELSE [result |-> <<c[key]>>, cache |-> c]

\* get: the value returned (<<>> for null, <<entry>> otherwise) and the
\* cache it leaves behind
get(c, t, bucket, prefix) ==
  LET key == getCacheKey(bucket, prefix) IN
  IF key \notin DOMAIN c THEN [result |-> <<>>, cache |-> c]
  ELSE IF t - c[key].lastFetched > ttl THEN [result |-> <<>>, cache |-> mapDelete(c, {key})]
  ELSE [result |-> <<c[key]>>, cache |-> c]

\* a set that keeps the objects and prefixes of the entry it replaces
set_KeepsOld(c, t, bucket, objects, prefixes, isTruncated, continuationToken, prefix) ==
  LET key == getCacheKey(bucket, prefix)
      old == IF key \in DOMAIN c THEN c[key] ELSE [objects |-> <<>>, prefixes |-> <<>>]
  IN  mapSet(c, key,
             [objects |-> old.objects \o objects, prefixes |-> old.prefixes \o prefixes,
              lastFetched |-> t,
              isTruncated |-> isTruncated, continuationToken |-> continuationToken])

\* a set that stores nothing for a listing without objects and prefixes
set_SkipsEmpty(c, t, bucket, objects, prefixes, isTruncated, continuationToken, prefix) ==
  IF objects = <<>> /\ prefixes = <<>> THEN c
  ELSE mapSet(c, getCacheKey(bucket, prefix),
              [objects |-> objects, prefixes |-> prefixes, lastFetched |-> t,
               isTruncated |-> isTruncated, continuationToken |-> continuationToken])

set(c, t, bucket, objects, prefixes, isTruncated, continuationToken, prefix) ==
  mapSet(c, getCacheKey(bucket, prefix),
         [objects |-> objects, prefixes |-> prefixes, lastFetched |-> t,
          isTruncated |-> isTruncated, continuationToken |-> continuationToken])

\* the keys the loop over the parent parts deletes
parentKeys(bucket, prefix) ==
  LET prefixPath == IF endsWith(prefix, <<"/">>) THEN SubSeq(prefix, 1, Len(prefix) - 1) ELSE prefix
      parentParts == split(prefixPath, "/")
  IN  { getCacheKey(bucket, OrUndefined(join(SubSeq(parentParts, 1, i), "/"))) :
          i \in 0..(Len(parentParts) - 1) }

\* an invalidation that clears the bucket whatever the prefix
invalidate_WholeBucket(c, bucket, prefix) ==
  mapDelete(c, {key \in DOMAIN c : startsWith(key, bucket \o <<":">>)})

\* an invalidation that takes the empty string for a prefix of its own
invalidate_EmptyIsPrefix(c, bucket, prefix) ==
  IF prefix # Undefined
  THEN mapDelete(c, {getCacheKey(bucket, prefix)} \cup parentKeys(bucket, prefix))
  ELSE mapDelete(c, {key \in DOMAIN c : startsWith(key, bucket \o <<":">>)})

\* a bucket-wide invalidation that matches the bucket name without the colon
invalidate_NoColon(c, bucket, prefix) ==
  IF Truthy(prefix)
  THEN mapDelete(c, {getCacheKey(bucket, prefix)} \cup parentKeys(bucket, prefix))
  ELSE mapDelete(c, {key \in DOMAIN c : startsWith(key, bucket)})

invalidate(c, bucket, prefix) ==
  IF Truthy(prefix)
  THEN mapDelete(c, {getCacheKey(bucket, prefix)} \cup parentKeys(bucket, prefix))
  ELSE LET bucketPrefix == bucket \o <<":">>
       IN  mapDelete(c, {key \in DOMAIN c : startsWith(key, bucketPrefix)})

\* a clear that leaves the entries of other buckets than b
invalidateAll_OneBucket(c) ==
  mapDelete(c, {key \in DOMAIN c : startsWith(key, <<"b", ":">>)})

invalidateAll(c) == mapDelete(c, DOMAIN c)

\* a filter that keeps the last occurrence of a key
uniqueObjects_KeepLast(allObjects) ==
  filterIdx(allObjects,
            {i \in 1..Len(allObjects) :
               \A j \in (i + 1)..Len(allObjects) : allObjects[j].key # allObjects[i].key}, 1)

\* a filter that drops nothing
uniqueObjects_NoFilter(allObjects) == allObjects

uniqueObjects(allObjects) ==
  filterIdx(allObjects, {i \in 1..Len(allObjects) : findIndexKey(allObjects, allObjects[i].key) = i}, 1)

\* a merge of prefixes that filters nothing
uniquePrefixes_NoFilter(allPrefixes) == allPrefixes

uniquePrefixes(allPrefixes) ==
  filterIdx(allPrefixes, {i \in 1..Len(allPrefixes) : findIndexPrefix(allPrefixes, allPrefixes[i].prefix) = i}, 1)

\* an append that replaces an entry older than the TTL by the page
append_ChecksFreshness(c, t, bucket, objects, prefixes, isTruncated, continuationToken, prefix) ==
  LET key == getCacheKey(bucket, prefix) IN
  IF key \in DOMAIN c /\ ~(t - c[key].lastFetched > ttl)
  THEN mapSet(c, key,
              [objects |-> uniqueObjects(c[key].objects \o objects),
               prefixes |-> uniquePrefixes(c[key].prefixes \o prefixes),
               lastFetched |-> t,
               isTruncated |-> isTruncated, continuationToken |-> continuationToken])
  ELSE set(c, t, bucket, objects, prefixes, isTruncated, continuationToken, prefix)

\* an append that leaves a complete entry complete
append_StaysComplete(c, t, bucket, objects, prefixes, isTruncated, continuationToken, prefix) ==
  LET key == getCacheKey(bucket, prefix) IN
  IF key \in DOMAIN c
  THEN mapSet(c, key,
              [objects |-> uniqueObjects(c[key].objects \o objects),
               prefixes |-> uniquePrefixes(c[key].prefixes \o prefixes),
               lastFetched |-> t,
               isTruncated |-> c[key].isTruncated /\ isTruncated,
               continuationToken |-> IF c[key].isTruncated THEN continuationToken
                                     ELSE c[key].continuationToken])
  ELSE set(c, t, bucket, objects, prefixes, isTruncated, continuationToken, prefix)

\* an append that ignores a page for a key without entry
append_NoCreate(c, t, bucket, objects, prefixes, isTruncated, continuationToken, prefix) ==
  LET key == getCacheKey(bucket, prefix) IN
  IF key \in DOMAIN c
  THEN mapSet(c, key,
              [objects |-> uniqueObjects(c[key].objects \o objects),
               prefixes |-> uniquePrefixes(c[key].prefixes \o prefixes),
               lastFetched |-> t,
               isTruncated |-> isTruncated, continuationToken |-> continuationToken])
  ELSE c

\* an append that keeps the token of the entry when the page has none
append_KeepsToken(c, t, bucket, objects, prefixes, isTruncated, continuationToken, prefix) ==
  LET key == getCacheKey(bucket, prefix) IN
  IF key \in DOMAIN c
  THEN mapSet(c, key,
              [objects |-> uniqueObjects(c[key].objects \o objects),
               prefixes |-> uniquePrefixes(c[key].prefixes \o prefixes),
               lastFetched |-> t,
               isTruncated |-> isTruncated,
               continuationToken |-> IF continuationToken = Undefined
                                     THEN c[key].continuationToken ELSE continuationToken])
  ELSE set(c, t, bucket, objects, prefixes, isTruncated, continuationToken, prefix)

append(c, t, bucket, objects, prefixes, isTruncated, continuationToken, prefix) ==
  LET key == getCacheKey(bucket, prefix) IN
  IF key \in DOMAIN c
  THEN mapSet(c, key,
              [objects |-> uniqueObjects(c[key].objects \o objects),
               prefixes |-> uniquePrefixes(c[key].prefixes \o prefixes),
               lastFetched |-> t,
               isTruncated |-> isTruncated, continuationToken |-> continuationToken])
  ELSE set(c, t, bucket, objects, prefixes, isTruncated, continuationToken, prefix)

getStats(c) == [size |-> Cardinality(DOMAIN c), keys |-> DOMAIN c]

(***************************************************************************)
(* Tree nodes (tree/nodes.ts) and the materializer of S3Explorer           *)
(***************************************************************************)
\* FolderNode{bucket, prefix}
createPrefixNode(bucket, prefixItem, parentPrefix) ==
  [kind |-> "folder", bucket |-> bucket, prefix |-> prefixItem.prefix]

\* ObjectNode{bucket, key, size}
createObjectNode(bucket, object, prefix) ==
  [kind |-> "object", bucket |-> bucket, key |-> object.key, size |-> object.size]

\* LoadMoreNode{bucket, prefix?, continuationToken}
createLoadMoreNode(bucket, continuationToken, prefix) ==
  [kind |-> "loadMore", bucket |-> bucket, prefix |-> prefix,
   continuationToken |-> continuationToken]

\* the nodes the loop over the prefixes pushes
prefixNodes(bucket, prefixes, prefix) ==
  [i \in 1..Len(prefixes) |-> createPrefixNode(bucket, prefixes[i], prefix)]

\* the nodes the loop over the objects pushes
objectNodes(bucket, objects, prefix) ==
  [i \in 1..Len(objects) |-> createObjectNode(bucket, objects[i], prefix)]

\* a materializer of the result that takes isTruncated alone for the sign of
\* a next page
createNodes_TruncatedOnly(bucket, result, prefix) ==
  LET folders == prefixNodes(bucket, result.prefixes, prefix)
      files == objectNodes(bucket, result.objects, prefix)
      more == IF result.isTruncated
              THEN <<createLoadMoreNode(bucket, result.continuationToken, prefix)>>
              ELSE <<>>
  IN  folders \o files \o more

\* a materializer of the result that never emits the load-more node
createNodes_NoLoadMore(bucket, result, prefix) ==
  LET folders == prefixNodes(bucket, result.prefixes, prefix)
      files == objectNodes(bucket, result.objects, prefix)
  IN  folders \o files

createNodes(bucket, result, prefix) ==
  LET folders == prefixNodes(bucket, result.prefixes, prefix)
      files == objectNodes(bucket, result.objects, prefix)
      more == IF result.isTruncated /\ Truthy(result.continuationToken)
              THEN <<createLoadMoreNode(bucket, result.continuationToken, prefix)>>
              ELSE <<>>
  IN  folders \o files \o more

\* a materializer of the cache that puts the objects before the folders
createNodesFromCache_ObjectsFirst(bucket, cached, prefix) ==
  LET folders == prefixNodes(bucket, cached.prefixes, prefix)
      files == objectNodes(bucket, cached.objects, prefix)
      more == IF cached.isTruncated /\ Truthy(cached.continuationToken)
              THEN <<createLoadMoreNode(bucket, cached.continuationToken, prefix)>>
              ELSE <<>>
  IN  files \o folders \o more

\* a materializer of the cache that takes the token alone for the sign of a
\* next page
createNodesFromCache_TokenOnly(bucket, cached, prefix) ==
  LET folders == prefixNodes(bucket, cached.prefixes, prefix)
      files == objectNodes(bucket, cached.objects, prefix)
      more == IF Truthy(cached.continuationToken)
              THEN <<createLoadMoreNode(bucket, cached.continuationToken, prefix)>>
              ELSE <<>>
  IN  folders \o files \o more

createNodesFromCache(bucket, cached, prefix) ==
  LET folders == prefixNodes(bucket, cached.prefixes, prefix)
      files == objectNodes(bucket, cached.objects, prefix)
      more == IF cached.isTruncated /\ Truthy(cached.continuationToken)
              THEN <<createLoadMoreNode(bucket, cached.continuationToken, prefix)>>
              ELSE <<>>
  IN  folders \o files \o more

\* a getPrefixContents that returns a fresh entry also when a token is given
getPrefixContents_HitWithToken(c, t, bucket, prefix, continuationToken) ==
  LET cached == get(c, t, bucket, prefix) IN
  IF cached.result # <<>>
  THEN [done |-> TRUE, cache |-> cached.cache,
        nodes |-> createNodesFromCache(bucket, cached.result[1], prefix)]
  ELSE [done |-> FALSE, cache |-> cached.cache, nodes |-> <<>>]

\* getPrefixContents up to its await: the cache get leaves, whether the call
\* returns at once and the nodes it then returns
getPrefixContents(c, t, bucket, prefix, continuationToken) ==
  LET cached == get(c, t, bucket, prefix) IN
  IF cached.result # <<>> /\ ~Truthy(continuationToken)
  THEN [done |-> TRUE, cache |-> cached.cache,
        nodes |-> createNodesFromCache(bucket, cached.result[1], prefix)]
  ELSE [done |-> FALSE, cache |-> cached.cache, nodes |-> <<>>]

\* getPrefixContents from the result of listObjects on
getPrefixContentsResult(c, t, bucket, prefix, continuationToken, result) ==
  [cache |-> IF Truthy(continuationToken)
             THEN append(c, t, bucket, result.objects, result.prefixes,
                         result.isTruncated, result.continuationToken, prefix)
             ELSE set(c, t, bucket, result.objects, result.prefixes,
                      result.isTruncated, result.continuationToken, prefix),
   nodes |-> createNodes(bucket, result, prefix)]

\* a getBucketContents that does not look at what the cache returned
getBucketContents_IgnoresCache(c, t, bucket, continuationToken) ==
  [done |-> FALSE, cache |-> get(c, t, bucket, Undefined).cache, nodes |-> <<>>]

\* getBucketContents: the same without a prefix
getBucketContents(c, t, bucket, continuationToken) ==
  LET cached == get(c, t, bucket, Undefined) IN
  IF cached.result # <<>> /\ ~Truthy(continuationToken)
  THEN [done |-> TRUE, cache |-> cached.cache,
        nodes |-> createNodesFromCache(bucket, cached.result[1], Undefined)]
  ELSE [done |-> FALSE, cache |-> cached.cache, nodes |-> <<>>]

getBucketContentsResult(c, t, bucket, continuationToken, result) ==
  [cache |-> IF Truthy(continuationToken)
             THEN append(c, t, bucket, result.objects, result.prefixes,
                         result.isTruncated, result.continuationToken, Undefined)
             ELSE set(c, t, bucket, result.objects, result.prefixes,
                      result.isTruncated, result.continuationToken, Undefined),
   nodes |-> createNodes(bucket, result, Undefined)]

(***************************************************************************)
(* Directory listing of the file system provider (fs/provider.ts)          *)
(***************************************************************************)
\* name.replace(/\/$/, "")
stripTrailingSlash(name) ==
  IF endsWith(name, <<"/">>) THEN SubSeq(name, 1, Len(name) - 1) ELSE name

\* name.substring(n)
substring(name, n) == SubSeq(name, n + 1, Len(name))

\* name.includes("/")
includesSlash(name) == \E i \in 1..Len(name) : name[i] = "/"

\* the name readDirectory gives a common prefix
directoryName(prefixItem, prefix) ==
  stripTrailingSlash(IF Truthy(prefix) THEN substring(prefixItem.prefix, Len(prefix))
                     ELSE prefixItem.prefix)

\* the name readDirectory gives an object
fileName(object, prefix) ==
  IF Truthy(prefix) THEN substring(object.key, Len(prefix)) ELSE object.key

RECURSIVE directoryEntries(_, _)
directoryEntries(prefixes, prefix) ==
  IF prefixes = <<>> THEN <<>>
  ELSE (IF directoryName(Head(prefixes), prefix) # <<>>
        THEN <<[name |-> directoryName(Head(prefixes), prefix), type |-> "Directory"]>>
        ELSE <<>>) \o directoryEntries(Tail(prefixes), prefix)

RECURSIVE fileEntries(_, _)
fileEntries(objects, prefix) ==
  IF objects = <<>> THEN <<>>
  ELSE (IF ~includesSlash(fileName(Head(objects), prefix)) /\ fileName(Head(objects), prefix) # <<>>
        THEN <<[name |-> fileName(Head(objects), prefix), type |-> "File"]>>
        ELSE <<>>) \o fileEntries(Tail(objects), prefix)

\* the entries readDirectory returns for the result of listObjects
readDirectory(result, prefix) ==
  directoryEntries(result.prefixes, prefix) \o fileEntries(result.objects, prefix)

(***************************************************************************)
(* Inputs                                                                  *)
(***************************************************************************)
\* bucket names follow the S3 naming rules (lower-case letters, digits,
\* dots, hyphens), so none holds the ":" of the cache key; one is a proper
\* prefix of the other
BucketB == <<"b">>
BucketBB == <<"b", "b">>

\* folder prefixes and one object key
PrefixA == <<"a", "/">>
PrefixAC == <<"a", "/", "c", "/">>
PrefixZ == <<"z", "/">>
KeyACX == <<"a", "/", "c", "/", "x">>

Tok1 == <<"t", "1">>
Tok2 == <<"t", "2">>

\* S3Object (key is its identity; size stands for the fields that tell two
\* versions of an object apart) and S3Prefix
O1 == [key |-> <<"o", "1">>, size |-> 1]
O1x == [key |-> <<"o", "1">>, size |-> 2]
O2 == [key |-> <<"o", "2">>, size |-> 1]
P1 == [prefix |-> <<"p", "1", "/">>]
P2 == [prefix |-> <<"p", "2", "/">>]

Page(objects, prefixes, isTruncated, continuationToken) ==
  [objects |-> objects, prefixes |-> prefixes,
   isTruncated |-> isTruncated, continuationToken |-> continuationToken]

NoPage == Page(<<>>, <<>>, FALSE, Undefined)

\* listing results handed to set and append
PageEmpty == Page(<<>>, <<>>, FALSE, Undefined)
PageFirst == Page(<<O1>>, <<P1>>, TRUE, Tok1)
PageLast == Page(<<O1x, O2>>, <<P1, P2>>, FALSE, Undefined)
PageDup == Page(<<O2, O2>>, <<P2, P2>>, TRUE, Tok2)
\* listing results whose token does not go with isTruncated
PageNoToken == Page(<<O1>>, <<P1>>, TRUE, Undefined)
PageStrayToken == Page(<<O1>>, <<P1>>, FALSE, Tok1)

Arg(bucket, prefix) == [bucket |-> bucket, prefix |-> prefix]

\* (bucket, prefix) arguments of get, set and append: listings of folders
ListingArgs ==
  { Arg(BucketB, p) : p \in {Undefined, <<>>, PrefixA, PrefixAC, PrefixZ} }
    \cup { Arg(BucketBB, p) : p \in {Undefined, PrefixA} }

\* (bucket, prefix) arguments of invalidate: a folder prefix or an object key
InvalidateArgs == ListingArgs \cup {Arg(BucketB, KeyACX)}

ListingPages == {PageEmpty, PageFirst}

\* inputs of the specification of freshness
FreshArgs ==
  { Arg(BucketB, p) : p \in {Undefined, PrefixA} } \cup {Arg(BucketBB, Undefined)}
FreshInstants == {1, DEFAULT_TTL, DEFAULT_TTL + 1, DEFAULT_TTL + 2}

\* inputs of the specification of the merge
MergeArgs == { Arg(BucketB, p) : p \in {Undefined, PrefixA} }
MergePages == {PageEmpty, PageFirst, PageLast, PageDup, PageNoToken}
MergeInstants == {1}

\* inputs of the specification of reading: the bucket root and one folder,
\* a first read or a load-more, and the results listObjects may give
ReadArgs == { Arg(BucketB, p) : p \in {Undefined, PrefixA} }
ReadTokens == {Undefined, Tok1}
PageFull == Page(<<O1, O2>>, <<P1, P2>>, TRUE, Tok1)
ReadPages == {PageFull, PageLast, PageNoToken, PageStrayToken}
ReadInstants == {DEFAULT_TTL + 1}

\* a listing of folder "a/" that holds more than its direct children
OAX == [key |-> <<"a", "/", "x">>, size |-> 1]
OACX == [key |-> KeyACX, size |-> 1]
OA == [key |-> PrefixA, size |-> 0]
PAC == [prefix |-> PrefixAC]
PACD == [prefix |-> <<"a", "/", "c", "/", "d", "/">>]
PageDir == Page(<<OAX, OACX, OA>>, <<PAC, PACD>>, FALSE, Undefined)
DirArgs == { Arg(BucketB, k) : k \in {<<>>, PrefixA} }
DirPages == {PageDir, PageFull}

\* (bucket, key) of the uris the file system provider is asked to change, and
\* the listings in the cache when it is
FsArgs == { Arg(BucketB, k) : k \in {<<>>, KeyACX} }
FsTargets == { Arg(BucketB, k) : k \in {<<>>, <<"z", "/", "y">>} }
FsListings == { Arg(BucketB, p) : p \in {Undefined, PrefixA, PrefixAC} }

\* the items handed to withProgressBatch
BatchItems == UNION { [1..k -> {"x", "y"}] : k \in 0..MaxItems }

\* tree nodes a command is invoked on
Node(kind, bucket, prefix, key) == [kind |-> kind, bucket |-> bucket, prefix |-> prefix, key |-> key]
NoNode == Node("none", <<>>, Undefined, Undefined)
BucketNodeB == Node("bucket", BucketB, Undefined, Undefined)
PrefixNodeA == Node("prefix", BucketB, PrefixA, Undefined)
ObjectNodeAX == Node("object", BucketB, Undefined, <<"a", "/", "x">>)
LoadMoreNodeA == Node("loadMore", BucketB, PrefixA, Undefined)
FolderTargets == {BucketNodeB, PrefixNodeA}
\* the nodes the refresh command is invoked on, and the listings cached then
RefreshTargets ==
  {NoNode, BucketNodeB, Node("bucket", BucketBB, Undefined, Undefined), PrefixNodeA,
   Node("prefix", BucketB, PrefixAC, Undefined), ObjectNodeAX, LoadMoreNodeA}
RefreshListings ==
  { Arg(BucketB, p) : p \in {Undefined, PrefixA, PrefixAC} }
    \cup { Arg(BucketBB, p) : p \in {Undefined, PrefixA} }
DeleteTargets == {ObjectNodeAX, PrefixNodeA}
CommandArgs == { Arg(BucketB, p) : p \in {Undefined, PrefixA} } \cup {Arg(BucketBB, Undefined)}

(***************************************************************************)
(* State                                                                   *)
(***************************************************************************)
VARIABLES
  cache,    \* S3Cache.cache: cache key -> CacheEntry
  now,      \* Date.now()
  lastOp,   \* the last call and its arguments
  ret,      \* what the last call returned (<<>> for null or void)
  pre,      \* the cache as the last call found it
  pending,  \* the bag of tree reads suspended at their await of listObjects
  io,       \* what the last step did outside the cache
  cmd,      \* the command handler under way
  stale,    \* the reads issued and the entries fetched before the last mutation
  cancelRequested,  \* token.isCancellationRequested of the progress under way
  batch,    \* the withProgressBatch call under way
  fs        \* the change events of the file system provider

vars == <<cache, now, lastOp, ret, pre, pending, io, cmd, stale, cancelRequested, batch, fs>>

\* the continuation token a read was given, the listObjects calls it issued,
\* the change events it fired and the error messages it showed
Io(token, calls, events, errors) ==
  [token |-> token, calls |-> calls, events |-> events, errors |-> errors]

NoIo == Io(Undefined, 0, 0, 0)

\* a command handler: where it stands, the node it was invoked on, the bucket
\* and prefix it works on, the remote mutations left to make and made, and
\* whether it has invalidated the cache
Cmd(pc, kind, node, bucket, prefix, left, mutated, invalidated) ==
  [pc |-> pc, kind |-> kind, node |-> node, bucket |-> bucket, prefix |-> prefix,
   left |-> left, mutated |-> mutated, invalidated |-> invalidated]

NoCmd == Cmd("idle", "none", NoNode, <<>>, <<>>, 0, 0, FALSE)

\* what predates the last remote mutation: the reads that were suspended at
\* their await when it succeeded, and the keys of the entries fetched before it
Stale(reads, keys) == [reads |-> reads, keys |-> keys]

NoStale == Stale(EmptyBag, {})

\* a withProgressBatch call: where it stands, whether its progress can be
\* cancelled, the items, the loop index i, the (item, index) pairs the
\* operation was invoked with, and how the call ended
Batch(pc, cancellable, items, i, invoked, outcome) ==
  [pc |-> pc, cancellable |-> cancellable, items |-> items, i |-> i,
   invoked |-> invoked, outcome |-> outcome]

NoBatch == Batch("idle", FALSE, <<>>, 0, <<>>, "none")

\* a file change event: its type and the key of its uri
Event(type, key) == [type |-> type, key |-> key]

\* the events of the provider: _bufferedEvents, whether the timer of
\* _fireSoonHandle is running and the milliseconds since it was started, the
\* batches the emitter has fired, and every event handed to _fireSoon so far
Fs(buffered, armed, elapsed, emitted, handed) ==
  [buffered |-> buffered, armed |-> armed, elapsed |-> elapsed,
   emitted |-> emitted, handed |-> handed]

NoFs == Fs(<<>>, FALSE, 0, <<>>, <<>>)

Op(name, a, pg) == [op |-> name, bucket |-> a.bucket, prefix |-> a.prefix, page |-> pg]

NoArg == Arg(<<>>, Undefined)

Init ==
  /\ cache = <<>>
  /\ now = 0
  /\ lastOp = Op("new", NoArg, NoPage)
  /\ ret = <<>>
  /\ pre = <<>>
  /\ pending = EmptyBag
  /\ io = NoIo
  /\ cmd = NoCmd
  /\ stale = NoStale
  /\ cancelRequested = FALSE
  /\ batch = NoBatch
  /\ fs = NoFs

\* a call may add an entry only while the cache is below its bound
Room(a) == getCacheKey(a.bucket, a.prefix) \in DOMAIN cache \/ Cardinality(DOMAIN cache) < MaxEntries

CallGet(args) ==
  \E a \in args :
    /\ cache' = get(cache, now, a.bucket, a.prefix).cache
    /\ ret' = get(cache, now, a.bucket, a.prefix).result
    /\ lastOp' = Op("get", a, NoPage)
    /\ pre' = cache
    /\ UNCHANGED <<now, pending, io, cmd, stale, cancelRequested, batch, fs>>

CallSet(args, pages) ==
  \E a \in args, pg \in pages :
    /\ Room(a)
    /\ cache' = set(cache, now, a.bucket, pg.objects, pg.prefixes, pg.isTruncated, pg.continuationToken, a.prefix)
    /\ ret' = <<>>
    /\ lastOp' = Op("set", a, pg)
    /\ pre' = cache
    /\ UNCHANGED <<now, pending, io, cmd, stale, cancelRequested, batch, fs>>

CallAppend(args, pages) ==
  \E a \in args, pg \in pages :
    /\ Room(a)
    /\ cache' = append(cache, now, a.bucket, pg.objects, pg.prefixes, pg.isTruncated, pg.continuationToken, a.prefix)
    /\ ret' = <<>>
    /\ lastOp' = Op("append", a, pg)
    /\ pre' = cache
    /\ UNCHANGED <<now, pending, io, cmd, stale, cancelRequested, batch, fs>>

CallInvalidate(args) ==
  \E a \in args :
    /\ cache' = invalidate(cache, a.bucket, a.prefix)
    /\ ret' = <<>>
    /\ lastOp' = Op("invalidate", a, NoPage)
    /\ pre' = cache
    /\ UNCHANGED <<now, pending, io, cmd, stale, cancelRequested, batch, fs>>

CallInvalidateAll ==
  /\ cache' = invalidateAll(cache)
  /\ ret' = <<>>
  /\ lastOp' = Op("invalidateAll", NoArg, NoPage)
  /\ pre' = cache
  /\ UNCHANGED <<now, pending, io, cmd, stale, cancelRequested, batch, fs>>

\* time passes between two calls
Tick(instants) ==
  \E t \in instants :
    /\ now < t
    /\ t <= MaxTime
    /\ now' = t
    /\ lastOp' = Op("tick", NoArg, NoPage)
    /\ ret' = <<>>
    /\ pre' = cache
    /\ UNCHANGED <<cache, pending, io, cmd, stale, cancelRequested, batch, fs>>

\* a read that issues no listObjects call while an equal call is awaited
TreeRead_Coalesces(args, tokens) ==
  \E a \in args, tok \in tokens :
    LET r == IF Truthy(a.prefix)
             THEN getPrefixContents(cache, now, a.bucket, a.prefix, tok)
             ELSE getBucketContents(cache, now, a.bucket, tok)
        rd == [bucket |-> a.bucket, prefix |-> a.prefix, token |-> tok]
        joins == ~r.done /\ BagIn(rd, pending)
    IN  /\ r.done \/ BagCardinality(pending) < MaxReads
        /\ cache' = r.cache
        /\ ret' = r.nodes
        /\ pending' = IF r.done \/ joins THEN pending ELSE pending (+) SetToBag({rd})
        /\ lastOp' = Op(IF r.done THEN "readHit" ELSE "readMiss", a, NoPage)
        /\ io' = Io(tok, IF r.done \/ joins THEN 0 ELSE 1, 0, 0)
        /\ pre' = cache
        /\ UNCHANGED <<now, cmd, stale, cancelRequested, batch, fs>>

\* getChildren of a bucket or folder node (no token) or loadMore of a
\* load-more node (its token), up to the return from the cache or to the
\* await of listObjects
TreeRead(args, tokens) ==
  \E a \in args, tok \in tokens :
    LET r == IF Truthy(a.prefix)
             THEN getPrefixContents(cache, now, a.bucket, a.prefix, tok)
             ELSE getBucketContents(cache, now, a.bucket, tok)
    IN  /\ r.done \/ BagCardinality(pending) < MaxReads
        /\ cache' = r.cache
        /\ ret' = r.nodes
        /\ pending' = IF r.done THEN pending
                      ELSE pending (+) SetToBag({[bucket |-> a.bucket, prefix |-> a.prefix, token |-> tok]})
        /\ lastOp' = Op(IF r.done THEN "readHit" ELSE "readMiss", a, NoPage)
        /\ io' = Io(tok, IF r.done THEN 0 ELSE 1, 0, 0)
        /\ pre' = cache
        /\ UNCHANGED <<now, cmd, stale, cancelRequested, batch, fs>>

\* whether a suspended read may be one issued before the last mutation (old)
\* or one issued after it
Issued(rd, old) ==
  IF old THEN BagIn(rd, stale.reads)
  ELSE CopiesIn(rd, pending) > CopiesIn(rd, stale.reads)

\* what predates the last mutation once the read rd has stored its result in
\* the cache c: an old read leaves an old listing, a new first page replaces it
staleAfter(rd, old, c) ==
  LET k == getCacheKey(rd.bucket, rd.prefix)
      reads == IF old THEN stale.reads (-) SetToBag({rd}) ELSE stale.reads
      keys == IF old THEN stale.keys \cup {k}
              ELSE IF Truthy(rd.token) THEN stale.keys
              ELSE stale.keys \ {k}
  IN  Stale(reads, keys \cap DOMAIN c)

\* listObjects resolves for a suspended read: the read stores the result and
\* returns its nodes; loadMore then fires the change event
ListObjectsReturns(pages) ==
  \E rd \in BagToSet(pending), pg \in pages, old \in BOOLEAN :
    LET r == IF Truthy(rd.prefix)
             THEN getPrefixContentsResult(cache, now, rd.bucket, rd.prefix, rd.token, pg)
             ELSE getBucketContentsResult(cache, now, rd.bucket, rd.token, pg)
    IN  /\ Room(rd)
        /\ Issued(rd, old)
        /\ cache' = r.cache
        /\ ret' = r.nodes
        /\ pending' = pending (-) SetToBag({rd})
        /\ stale' = staleAfter(rd, old, r.cache)
        /\ lastOp' = Op("readDone", rd, pg)
        /\ io' = Io(rd.token, 0, IF Truthy(rd.token) THEN 1 ELSE 0, 0)
        /\ pre' = cache
        /\ UNCHANGED <<now, cmd, cancelRequested, batch, fs>>

\* the ways listObjects rejects: the service cannot be reached, the
\* credentials are refused, the bucket or prefix is gone, the continuation
\* token is not accepted
ReadErrors == {"readUnavailable", "readAuthFailure", "readNotFound", "readBadToken"}

\* a failed read that issues its listObjects call again
ListObjectsFails_Retries(errors) ==
  \E rd \in BagToSet(pending), e \in errors, old \in BOOLEAN :
    /\ e = "readBadToken" => Truthy(rd.token)
    /\ Issued(rd, old)
    /\ ret' = <<>>
    /\ lastOp' = Op(e, rd, NoPage)
    /\ io' = Io(rd.token, 1, 0, 1)
    /\ pre' = cache
    /\ UNCHANGED <<cache, now, pending, cmd, stale, cancelRequested, batch, fs>>

\* a failed read that stores an empty listing
ListObjectsFails_Stores(errors) ==
  \E rd \in BagToSet(pending), e \in errors, old \in BOOLEAN :
    /\ e = "readBadToken" => Truthy(rd.token)
    /\ Issued(rd, old)
    /\ Room(rd)
    /\ pending' = pending (-) SetToBag({rd})
    /\ stale' = Stale(IF old THEN stale.reads (-) SetToBag({rd}) ELSE stale.reads, stale.keys)
    /\ cache' = set(cache, now, rd.bucket, <<>>, <<>>, FALSE, Undefined, rd.prefix)
    /\ ret' = <<>>
    /\ lastOp' = Op(e, rd, NoPage)
    /\ io' = Io(rd.token, 0, 0, 1)
    /\ pre' = cache
    /\ UNCHANGED <<now, cmd, cancelRequested, batch, fs>>

\* listObjects rejects for a suspended read: getChildren and loadMore show an
\* error message, getChildren returns no node
ListObjectsFails(errors) ==
  \E rd \in BagToSet(pending), e \in errors, old \in BOOLEAN :
    /\ e = "readBadToken" => Truthy(rd.token)
    /\ Issued(rd, old)
    /\ pending' = pending (-) SetToBag({rd})
    /\ stale' = Stale(IF old THEN stale.reads (-) SetToBag({rd}) ELSE stale.reads, stale.keys)
    /\ ret' = <<>>
    /\ lastOp' = Op(e, rd, NoPage)
    /\ io' = Io(rd.token, 0, 0, 1)
    /\ pre' = cache
    /\ UNCHANGED <<cache, now, cmd, cancelRequested, batch, fs>>

\* readDirectory of the file system provider on the uri of (bucket, key),
\* listObjects resolving
ReadDirectory(args, pages) ==
  \E a \in args, pg \in pages :
    LET prefix == IF Truthy(a.prefix) THEN a.prefix ELSE Undefined IN
    /\ ret' = readDirectory(pg, prefix)
    /\ lastOp' = Op("readDirectory", Arg(a.bucket, prefix), pg)
    /\ io' = Io(Undefined, 1, 0, 0)
    /\ pre' = cache
    /\ UNCHANGED <<cache, now, pending, cmd, stale, cancelRequested, batch, fs>>

\* readDirectory, listObjects rejecting: FileSystemError.Unavailable
ReadDirectoryFails(args) ==
  \E a \in args :
    LET prefix == IF Truthy(a.prefix) THEN a.prefix ELSE Undefined IN
    /\ ret' = <<>>
    /\ lastOp' = Op("readDirectoryFailed", Arg(a.bucket, prefix), NoPage)
    /\ io' = Io(Undefined, 1, 0, 1)
    /\ pre' = cache
    /\ UNCHANGED <<cache, now, pending, cmd, stale, cancelRequested, batch, fs>>

\* a call of the file system provider that changes the bucket: the call, how
\* it ended (op: the call, or "fsFailed"), its uri, its target uri (rename)
\* and what is particular to the call
FsOp(name, failed, a, to, detail) ==
  [op |-> IF failed THEN "fsFailed" ELSE name, call |-> name,
   bucket |-> a.bucket, prefix |-> a.prefix, page |-> NoPage, to |-> to,
   detail |-> detail]

\* the delay of the timer of _fireSoon (milliseconds)
FireDelay == 5

\* a _fireSoon that replaces the buffer by the events
fireSoon_Overwrites(f, events) ==
  [f EXCEPT !.buffered = events,
            !.armed = TRUE,
            !.elapsed = 0,
            !.handed = @ \o events]

\* _fireSoon(...events): the events are pushed to the buffer, the timer that
\* is running is cleared and a timer of 5 ms is started
fireSoon(f, events) ==
  [f EXCEPT !.buffered = @ \o events,
            !.armed = TRUE,
            !.elapsed = 0,
            !.handed = @ \o events]

\* a millisecond passes while the timer is running
TickMs ==
  /\ fs.armed
  /\ fs.elapsed < FireDelay
  /\ fs' = [fs EXCEPT !.elapsed = @ + 1]
  /\ UNCHANGED <<cache, now, lastOp, ret, pre, pending, io, cmd, stale, cancelRequested, batch>>

\* the timer fires: the emitter fires the buffered events as one batch and
\* the buffer is emptied
TimerFires ==
  /\ fs.armed
  /\ fs.elapsed = FireDelay
  /\ fs' = [fs EXCEPT !.emitted = Append(@, fs.buffered), !.buffered = <<>>, !.armed = FALSE]
  /\ UNCHANGED <<cache, now, lastOp, ret, pre, pending, io, cmd, stale, cancelRequested, batch>>

\* a changing call of the provider ends: without error it has handed its
\* events to _fireSoon, with an error it throws the error; the provider does
\* not use the cache
FsReturns(name, a, to, error, events, detail) ==
  /\ error = "" => Len(fs.handed) + Len(events) <= MaxEvents
  /\ lastOp' = FsOp(name, error # "", a, to, detail)
  /\ ret' = IF error = "" THEN <<>> ELSE <<error>>
  /\ io' = Io(Undefined, 0, IF error = "" THEN Len(events) ELSE 0, 0)
  /\ fs' = IF error = "" THEN fireSoon(fs, events) ELSE fs
  /\ pre' = cache
  /\ UNCHANGED <<cache, now, pending, cmd, stale, cancelRequested, batch>>

\* createDirectory(uri), putObject resolving (ok) or rejecting
CreateDirectory(args) ==
  \E a \in args, ok \in BOOLEAN :
    FsReturns("createDirectory", a, Undefined,
              IF ~Truthy(a.prefix) \/ ~ok THEN "Unavailable" ELSE "",
              <<Event("Created", a.prefix)>>, <<>>)

\* what getObjectMetadata answers: the object exists, NoSuchKey, another error
MetadataAnswers == {"exists", "NoSuchKey", "error"}

\* a writeFile that does not look at its flags
writeFileError_IgnoresFlags(key, create, overwrite, meta, ok) ==
  IF ~Truthy(key) THEN "FileIsADirectory"
  ELSE IF ~ok THEN "Unavailable"
  ELSE ""

\* the error writeFile throws, "" when it throws none
writeFileError(key, create, overwrite, meta, ok) ==
  IF ~Truthy(key) THEN "FileIsADirectory"
  ELSE IF ~overwrite /\ meta = "exists" THEN "FileExists"
  ELSE IF ~overwrite /\ meta = "error" THEN "Unavailable"
  ELSE IF ~create /\ meta = "NoSuchKey" THEN "FileNotFound"
  ELSE IF ~create /\ meta = "error" THEN "Unavailable"
  ELSE IF ~ok THEN "Unavailable"
  ELSE ""

\* the putObject calls writeFile has issued when it ends with the error:
\* putObject is the last call, reached when no check has thrown
writeFilePuts(error, ok) ==
  IF error = "" \/ (error = "Unavailable" /\ ~ok) THEN 1 ELSE 0

\* writeFile(uri, content, {create, overwrite}), getObjectMetadata answering
\* meta, putObject resolving (ok) or rejecting
WriteFile(args) ==
  \E a \in args, create \in BOOLEAN, overwrite \in BOOLEAN, meta \in MetadataAnswers, ok \in BOOLEAN :
    LET error == writeFileError(a.prefix, create, overwrite, meta, ok) IN
    FsReturns("writeFile", a, Undefined, error, <<Event("Changed", a.prefix)>>,
              [create |-> create, overwrite |-> overwrite, meta |-> meta,
               puts |-> writeFilePuts(error, ok)])

\* delete(uri, {recursive}) of a file or of a directory, empty or not, the
\* deleteObject calls resolving (ok) or one rejecting
Delete(args) ==
  \E a \in args, recursive \in BOOLEAN, directory \in BOOLEAN, empty \in BOOLEAN, ok \in BOOLEAN :
    FsReturns("delete", a, Undefined,
              IF ~Truthy(a.prefix) THEN "NoPermissions"
              ELSE IF directory /\ ~recursive /\ ~empty THEN "NoPermissions"
              ELSE IF ~directory /\ ~ok THEN "Unavailable"
              ELSE IF directory /\ recursive /\ ~empty /\ ~ok THEN "Unavailable"
              ELSE "",
              <<Event("Deleted", a.prefix)>>, <<>>)

\* rename(oldUri, newUri, {overwrite}), the target existing or not, the
\* copies and deletes resolving (ok) or one rejecting
Rename(args, targets) ==
  \E a \in args, b \in targets, overwrite \in BOOLEAN, exists \in BOOLEAN, ok \in BOOLEAN :
    FsReturns("rename", a, b.prefix,
              IF ~Truthy(a.prefix) \/ ~Truthy(b.prefix) THEN "NoPermissions"
              ELSE IF a.bucket # b.bucket THEN "NoPermissions"
              ELSE IF ~overwrite /\ exists THEN "FileExists"
              ELSE IF ~ok THEN "Unavailable"
              ELSE "",
              <<Event("Deleted", a.prefix), Event("Created", b.prefix)>>, <<>>)

\* a refresh that clears the cache whatever the element
refresh_ClearsAll(c, element) == invalidateAll(c)

\* S3Explorer.refresh(element): what it leaves of the cache
refresh(c, element) ==
  IF element.kind # "none"
  THEN IF element.kind = "bucket" THEN invalidate(c, element.bucket, Undefined)
       ELSE IF element.kind = "prefix" THEN invalidate(c, element.bucket, element.prefix)
       ELSE c
  ELSE invalidateAll(c)

\* a call of refresh: the element it was given
RefreshOp(name, element) ==
  [op |-> name, bucket |-> element.bucket, prefix |-> element.prefix, page |-> NoPage,
   node |-> element]

\* the s3x.refresh command on a node or on none: S3Explorer.refresh(node),
\* which invalidates and then fires the change event
CallRefresh(nodes) ==
  \E node \in nodes :
    /\ cache' = refresh(cache, node)
    /\ ret' = <<>>
    /\ lastOp' = RefreshOp("refresh", node)
    /\ io' = Io(Undefined, 0, 1, 0)
    /\ pre' = cache
    /\ UNCHANGED <<now, pending, cmd, stale, cancelRequested, batch, fs>>

\* the s3x.refreshAll command
RefreshAll ==
  /\ cache' = refresh(invalidateAll(cache), NoNode)
  /\ ret' = <<>>
  /\ lastOp' = RefreshOp("refreshAll", NoNode)
  /\ io' = Io(Undefined, 0, 1, 0)
  /\ pre' = cache
  /\ UNCHANGED <<now, pending, cmd, stale, cancelRequested, batch, fs>>

\* deactivate() of the extension
Deactivate ==
  /\ cache' = invalidateAll(cache)
  /\ ret' = <<>>
  /\ lastOp' = RefreshOp("deactivate", NoNode)
  /\ io' = NoIo
  /\ pre' = cache
  /\ UNCHANGED <<now, pending, cmd, stale, cancelRequested, batch, fs>>

\* the bucket and prefix handleCreateFolder and handleUploadFile work on; the
\* bucket prompt, when there is one, gives BucketB
targetBucket(node) == IF node.kind \in {"bucket", "prefix"} THEN node.bucket ELSE BucketB
targetPrefix(node) == IF node.kind = "prefix" THEN node.prefix ELSE <<>>

\* a handler may start when none is under way
CommandFree == cmd.pc \in {"idle", "done"}

\* handleCreateFolder up to its await of createFolder, the prompts answered
StartCreateFolder(nodes) ==
  \E node \in nodes :
    /\ CommandFree
    /\ cmd' = Cmd("remote", "createFolder", node, targetBucket(node), targetPrefix(node), 1, 0, FALSE)
    /\ lastOp' = Op("createFolder", Arg(targetBucket(node), targetPrefix(node)), NoPage)
    /\ ret' = <<>>
    /\ io' = NoIo
    /\ pre' = cache
    /\ UNCHANGED <<cache, now, pending, stale, cancelRequested, batch, fs>>

\* handleUploadFile up to its await of the first uploadFile, the files picked
StartUploadFile(nodes) ==
  \E node \in nodes, n \in 1..MaxFiles :
    /\ CommandFree
    /\ cmd' = Cmd("remote", "uploadFile", node, targetBucket(node), targetPrefix(node), n, 0, FALSE)
    /\ lastOp' = Op("uploadFile", Arg(targetBucket(node), targetPrefix(node)), NoPage)
    /\ ret' = <<>>
    /\ io' = NoIo
    /\ pre' = cache
    /\ UNCHANGED <<cache, now, pending, stale, cancelRequested, batch, fs>>

\* handleDelete, the confirmation given: up to its await of deleteObject for
\* an object node, to its end for a folder node (nothing is deleted)
StartDelete(nodes) ==
  \E node \in nodes :
    /\ CommandFree
    /\ cmd' = IF node.kind = "object"
              THEN Cmd("remote", "delete", node, node.bucket, <<>>, 1, 0, FALSE)
              ELSE Cmd("done", "delete", node, node.bucket, <<>>, 0, 0, FALSE)
    /\ lastOp' = Op("delete", Arg(node.bucket, <<>>), NoPage)
    /\ ret' = <<>>
    /\ io' = NoIo
    /\ pre' = cache
    /\ UNCHANGED <<cache, now, pending, stale, cancelRequested, batch, fs>>

\* a handler returns at a prompt the user dismissed
PromptDismissed(nodes) ==
  \E node \in nodes, kind \in {"createFolder", "uploadFile", "delete"} :
    /\ CommandFree
    /\ cmd' = Cmd("done", kind, node, node.bucket, <<>>, 0, 0, FALSE)
    /\ lastOp' = Op("dismissed", Arg(node.bucket, <<>>), NoPage)
    /\ ret' = <<>>
    /\ io' = NoIo
    /\ pre' = cache
    /\ UNCHANGED <<cache, now, pending, stale, cancelRequested, batch, fs>>

\* the cache after the invalidate and the refresh that follow the last
\* mutation of the handler
afterCommand(c, k) ==
  IF k.kind = "delete"
  THEN refresh(invalidate(c, k.node.bucket, Undefined), NoNode)
  ELSE refresh(invalidate(c, k.bucket, k.prefix), k.node)

\* the remote mutation the handler awaits succeeds: the handler goes on to
\* its next file, or invalidates, refreshes and ends; the entries that stay
\* and the reads under way are from before the mutation
RemoteSucceeds ==
  /\ cmd.pc = "remote"
  /\ IF cmd.left > 1
     THEN /\ cmd' = [cmd EXCEPT !.left = @ - 1, !.mutated = @ + 1]
          /\ io' = NoIo
          /\ UNCHANGED cache
     ELSE /\ cmd' = [cmd EXCEPT !.pc = "done", !.left = 0, !.mutated = @ + 1, !.invalidated = TRUE]
          /\ io' = Io(Undefined, 0, 1, 0)
          /\ cache' = afterCommand(cache, cmd)
  /\ stale' = Stale(pending, DOMAIN cache')
  /\ cancelRequested' = FALSE
  /\ lastOp' = Op("mutated", Arg(cmd.bucket, cmd.prefix), NoPage)
  /\ ret' = <<>>
  /\ pre' = cache
  /\ UNCHANGED <<now, pending, batch, fs>>

\* the remote mutation the handler awaits fails: the catch shows an error
\* message and the handler ends
RemoteFails ==
  /\ cmd.pc = "remote"
  /\ cmd' = [cmd EXCEPT !.pc = "done"]
  /\ cancelRequested' = FALSE
  /\ io' = Io(Undefined, 0, 0, 1)
  /\ lastOp' = Op("mutationFailed", Arg(cmd.bucket, cmd.prefix), NoPage)
  /\ ret' = <<>>
  /\ pre' = cache
  /\ UNCHANGED <<cache, now, pending, stale, batch, fs>>

\* the user presses Cancel on the notification of a cancellable progress:
\* that of the upload or delete under way, or that of the batch
UserCancels ==
  /\ \/ cmd.pc = "remote" /\ cmd.kind \in {"uploadFile", "delete"}
     \/ batch.pc = "await" /\ batch.cancellable
  /\ ~cancelRequested
  /\ cancelRequested' = TRUE
  /\ UNCHANGED <<cache, now, lastOp, ret, pre, pending, io, cmd, stale, batch, fs>>

\* a loop of withProgressBatch that does not look at the token
batchLoop_IgnoresToken(b, cancelled) ==
  IF ~(b.i < Len(b.items))
  THEN [b EXCEPT !.pc = "done", !.outcome = "resolved"]
  ELSE [b EXCEPT !.pc = "await", !.invoked = Append(@, <<b.items[b.i + 1], b.i>>)]

\* the for loop of withProgressBatch from its test of i up to the await of
\* operation(items[i], i, ...), the end of the loop or the throw
batchLoop(b, cancelled) ==
  IF ~(b.i < Len(b.items))
  THEN [b EXCEPT !.pc = "done", !.outcome = "resolved"]
  ELSE IF cancelled
  THEN [b EXCEPT !.pc = "done", !.outcome = "Operation cancelled"]
  ELSE [b EXCEPT !.pc = "await", !.invoked = Append(@, <<b.items[b.i + 1], b.i>>)]

\* withProgressBatch(items, operation, options) up to its first await
BatchStart(itemss) ==
  \E items \in itemss, cancellable \in BOOLEAN :
    /\ batch.pc \in {"idle", "done"}
    /\ batch' = IF Len(items) = 0
                THEN Batch("done", cancellable, items, 0, <<>>, "resolved")
                ELSE batchLoop(Batch("loop", cancellable, items, 0, <<>>, "none"), FALSE)
    /\ cancelRequested' = FALSE
    /\ UNCHANGED <<cache, now, lastOp, ret, pre, pending, io, cmd, stale, fs>>

\* the operation awaited for items[i] resolves: i++ and the loop goes on
OperationResolves ==
  /\ batch.pc = "await"
  /\ batch' = batchLoop([batch EXCEPT !.i = @ + 1], cancelRequested)
  /\ cancelRequested' = (cancelRequested /\ batch'.pc # "done")
  /\ UNCHANGED <<cache, now, lastOp, ret, pre, pending, io, cmd, stale, fs>>

\* the operation awaited for items[i] rejects: withProgress reports the
\* error and rethrows it
OperationRejects ==
  /\ batch.pc = "await"
  /\ batch' = [batch EXCEPT !.pc = "done", !.outcome = "rejected"]
  /\ cancelRequested' = FALSE
  /\ UNCHANGED <<cache, now, lastOp, ret, pre, pending, io, cmd, stale, fs>>

\* the cache under many keys
Next ==
  \/ CallGet(ListingArgs)
  \/ CallSet(ListingArgs, ListingPages)
  \/ CallAppend(ListingArgs, ListingPages)
  \/ CallInvalidate(InvalidateArgs)
  \/ CallInvalidateAll

Spec == Init /\ [][Next]_vars

\* the cache and the clock
NextFresh ==
  \/ CallGet(FreshArgs)
  \/ CallSet(FreshArgs, ListingPages)
  \/ CallAppend(FreshArgs, ListingPages)
  \/ CallInvalidate(FreshArgs)
  \/ CallInvalidateAll
  \/ Tick(FreshInstants)

SpecFresh == Init /\ [][NextFresh]_vars

\* the merge of pages
NextMerge ==
  \/ CallGet(MergeArgs)
  \/ CallSet(MergeArgs, MergePages)
  \/ CallAppend(MergeArgs, MergePages)
  \/ CallInvalidate(MergeArgs)
  \/ CallInvalidateAll
  \/ Tick(MergeInstants)

SpecMerge == Init /\ [][NextMerge]_vars

\* the tree reading listings
NextRead ==
  \/ TreeRead(ReadArgs, ReadTokens)
  \/ ListObjectsReturns(ReadPages)
  \/ ListObjectsFails(ReadErrors)
  \/ Tick(ReadInstants)

SpecRead == Init /\ [][NextRead]_vars

\* the tree and the file system provider reading the same folders
NextDirectory ==
  \/ TreeRead(ReadArgs, {Undefined})
  \/ ListObjectsReturns(DirPages)
  \/ ListObjectsFails({"readUnavailable"})
  \/ ReadDirectory(DirArgs, DirPages)
  \/ ReadDirectoryFails(DirArgs)
  \/ Tick(ReadInstants)

SpecDirectory == Init /\ [][NextDirectory]_vars

\* the command handlers that change the bucket
NextCommand ==
  \/ CallSet(CommandArgs, ListingPages)
  \/ StartCreateFolder(FolderTargets \cup {NoNode})
  \/ StartUploadFile(FolderTargets \cup {NoNode})
  \/ StartDelete(DeleteTargets)
  \/ PromptDismissed(FolderTargets)
  \/ RemoteSucceeds
  \/ RemoteFails
  \/ UserCancels

SpecCommand == Init /\ [][NextCommand]_vars

\* the file system provider changing the bucket while listings are cached
NextProvider ==
  \/ CallSet(FsListings, ListingPages)
  \/ CreateDirectory(FsArgs)
  \/ WriteFile(FsArgs)
  \/ Delete(FsArgs)
  \/ Rename(FsArgs, FsTargets)

SpecProvider == Init /\ [][NextProvider]_vars

\* the tree reading listings while a command changes the bucket
NextRace ==
  \/ TreeRead(ReadArgs, {Undefined})
  \/ ListObjectsReturns(ListingPages)
  \/ ListObjectsFails({"readUnavailable"})
  \/ StartCreateFolder(FolderTargets)
  \/ RemoteSucceeds
  \/ RemoteFails

SpecRace == Init /\ [][NextRace]_vars

\* a batch of items under a progress notification
NextBatch ==
  \/ BatchStart(BatchItems)
  \/ OperationResolves
  \/ OperationRejects
  \/ UserCancels

SpecBatch == Init /\ [][NextBatch]_vars

\* the refresh commands and the cache
NextRefresh ==
  \/ CallSet(RefreshListings, ListingPages)
  \/ CallInvalidateAll
  \/ CallRefresh(RefreshTargets)
  \/ RefreshAll
  \/ Deactivate

SpecRefresh == Init /\ [][NextRefresh]_vars

\* the provider queueing change events while the timer runs; time passes and
\* a timer that is due fires
NextFire ==
  \/ CreateDirectory(FsArgs)
  \/ Delete(FsArgs)
  \/ Rename(FsArgs, FsTargets)
  \/ TickMs
  \/ TimerFires

SpecFire == Init /\ [][NextFire]_vars /\ WF_vars(TickMs) /\ WF_vars(TimerFires)

TypeOK ==
  /\ now \in 0..MaxTime
  /\ Cardinality(DOMAIN cache) <= MaxEntries
  /\ \A k \in DOMAIN cache : cache[k].lastFetched <= now

(***************************************************************************)
(* Properties of invalidation and of the cache key                         *)
(***************************************************************************)
\* the cache key of the last call
LastKey == getCacheKey(lastOp.bucket, lastOp.prefix)

\* the ancestor folders of a path: the bucket root and every proper prefix
\* of the path that ends in "/"
AncestorPrefixes(path) ==
  { SubSeq(path, 1, i) : i \in {j \in 0..(Len(path) - 1) : j = 0 \/ path[j] = "/"} }

\* the bucket a cache key belongs to: what precedes its first colon
BucketOf(key) == split(key, ":")[1]

\* the entry under a key, <<>> when there is none
EntryAt(c, key) == IF key \in DOMAIN c THEN <<c[key]>> ELSE <<>>

\* C1: after invalidate(bucket, prefix) with a non-empty prefix the cache
\* holds no entry for (bucket, prefix) and none for any ancestor folder of
\* the prefix up to and including the bucket root
C1_AncestorCascade ==
  (lastOp.op = "invalidate" /\ Truthy(lastOp.prefix)) =>
    \A p \in {lastOp.prefix} \cup AncestorPrefixes(lastOp.prefix) :
      getCacheKey(lastOp.bucket, p) \notin DOMAIN cache

\* C2: invalidate(bucket, prefix) with a non-empty prefix leaves every entry
\* that is neither the entry of (bucket, prefix) nor that of an ancestor
\* folder in the same bucket in the cache with its contents and lastFetched
C2_InvalidateFrame ==
  (lastOp.op = "invalidate" /\ Truthy(lastOp.prefix)) =>
    /\ DOMAIN cache \subseteq DOMAIN pre
    /\ \A k \in DOMAIN pre :
         k \notin { getCacheKey(lastOp.bucket, p) :
                      p \in {lastOp.prefix} \cup AncestorPrefixes(lastOp.prefix) }
           => (k \in DOMAIN cache /\ cache[k] = pre[k])

\* an invalidation of an object key has removed the bucket root and left an
\* unrelated folder and an entry of another bucket in place
C2_Witness ==
  /\ lastOp.op = "invalidate"
  /\ lastOp.bucket = BucketB
  /\ lastOp.prefix = KeyACX
  /\ getCacheKey(BucketB, <<>>) \in DOMAIN pre
  /\ getCacheKey(BucketB, <<>>) \notin DOMAIN cache
  /\ getCacheKey(BucketB, PrefixZ) \in DOMAIN cache
  /\ getCacheKey(BucketBB, PrefixA) \in DOMAIN cache

\* C3: invalidate(bucket) without a prefix removes every entry of that
\* bucket, whatever its prefix, and no entry of another bucket
C3_BucketWide ==
  (lastOp.op = "invalidate" /\ lastOp.prefix = Undefined) =>
    /\ DOMAIN cache \subseteq DOMAIN pre
    /\ \A k \in DOMAIN pre :
         IF BucketOf(k) = lastOp.bucket
         THEN k \notin DOMAIN cache
         ELSE k \in DOMAIN cache /\ cache[k] = pre[k]

\* a bucket-wide invalidation of "b" has removed two entries of "b" and kept
\* the entry of "bb"
C3_Witness ==
  /\ lastOp.op = "invalidate"
  /\ lastOp.prefix = Undefined
  /\ lastOp.bucket = BucketB
  /\ {getCacheKey(BucketB, <<>>), getCacheKey(BucketB, PrefixAC)} \subseteq DOMAIN pre
  /\ getCacheKey(BucketBB, <<>>) \in DOMAIN pre
  /\ DOMAIN cache = {getCacheKey(BucketBB, <<>>)}

\* two pairs are the same pair: equal buckets and equal prefixes, an omitted
\* prefix being the empty one
SamePair(a1, a2) == a1.bucket = a2.bucket /\ OrEmpty(a1.prefix) = OrEmpty(a2.prefix)

\* the pairs address entries one to one
KeysDistinguishPairs ==
  \A a1 \in InvalidateArgs, a2 \in InvalidateArgs :
    (getCacheKey(a1.bucket, a1.prefix) = getCacheKey(a2.bucket, a2.prefix)) <=> SamePair(a1, a2)

\* the last call left the entry of every pair of the given pairs as it was
LeavesPairs(pairs) ==
  \A a \in pairs :
    EntryAt(cache, getCacheKey(a.bucket, a.prefix)) = EntryAt(pre, getCacheKey(a.bucket, a.prefix))

\* C4 as stated: pairs address entries one to one, and set, append, get or
\* invalidate on one pair never reads, overwrites or removes the entry of a
\* different pair
C4_Original ==
  /\ KeysDistinguishPairs
  /\ lastOp.op \in {"set", "append", "get", "invalidate"} =>
       LeavesPairs({a \in InvalidateArgs : ~SamePair(a, lastOp)})
  /\ lastOp.op = "get" => ret \in {<<>>, EntryAt(pre, LastKey)}

\* C4 amended: pairs address entries one to one; set, append and get on one
\* pair never read, overwrite or remove the entry of a different pair, and
\* invalidate on one pair removes entries of other pairs of the same bucket
\* only
C4_KeyIdentity ==
  /\ KeysDistinguishPairs
  /\ lastOp.op \in {"set", "append", "get"} =>
       LeavesPairs({a \in InvalidateArgs : ~SamePair(a, lastOp)})
  /\ lastOp.op = "get" => ret \in {<<>>, EntryAt(pre, LastKey)}
  /\ lastOp.op = "invalidate" =>
       LeavesPairs({a \in InvalidateArgs : a.bucket # lastOp.bucket})

\* a set on ("b", "a/") has overwritten its own entry with entries of
\* ("b", "") and ("bb", "a/") in the cache
C4_Witness ==
  /\ lastOp.op = "set"
  /\ lastOp.bucket = BucketB
  /\ lastOp.prefix = PrefixA
  /\ {LastKey, getCacheKey(BucketB, Undefined), getCacheKey(BucketBB, PrefixA)} \subseteq DOMAIN pre
  /\ cache[LastKey] # pre[LastKey]

(***************************************************************************)
(* Properties of freshness                                                 *)
(***************************************************************************)
\* C5: a get made when now - lastFetched > ttl returns absent and removes
\* that entry, so that getStats().size is one less, and removes or changes
\* no other entry
C5_StaleEviction ==
  (lastOp.op = "get" /\ LastKey \in DOMAIN pre /\ now - pre[LastKey].lastFetched > ttl) =>
    /\ ret = <<>>
    /\ LastKey \notin DOMAIN cache
    /\ getStats(cache).size = getStats(pre).size - 1
    /\ \A k \in DOMAIN pre \ {LastKey} : k \in DOMAIN cache /\ cache[k] = pre[k]

\* a get has found an entry one millisecond older than ttl next to another
\* entry
C5_Witness ==
  /\ lastOp.op = "get"
  /\ LastKey \in DOMAIN pre
  /\ now - pre[LastKey].lastFetched = ttl + 1
  /\ getStats(pre).size = 2
  /\ getStats(cache).size = 1

\* C6: a get made while now - lastFetched <= ttl, the instant of equality
\* included (ttl being 5 minutes), returns the stored entry and leaves the
\* whole cache unchanged; a get on a key without entry returns absent and
\* changes nothing
C6_FreshHit ==
  /\ ttl = 5 * 60 * 1000
  /\ (lastOp.op = "get" /\ LastKey \in DOMAIN pre /\ now - pre[LastKey].lastFetched <= ttl) =>
       (ret = <<pre[LastKey]>> /\ cache = pre)
  /\ (lastOp.op = "get" /\ LastKey \notin DOMAIN pre) =>
       (ret = <<>> /\ cache = pre)

\* a get has found an entry of age exactly ttl
C6_Witness ==
  /\ lastOp.op = "get"
  /\ LastKey \in DOMAIN pre
  /\ now - pre[LastKey].lastFetched = 5 * 60 * 1000
  /\ ret = <<cache[LastKey]>>

(***************************************************************************)
(* Properties of set and of the merge of pages                             *)
(***************************************************************************)
\* the entry a page makes at a given instant
EntryOf(pg, t) ==
  [objects |-> pg.objects, prefixes |-> pg.prefixes, lastFetched |-> t,
   isTruncated |-> pg.isTruncated, continuationToken |-> pg.continuationToken]

\* a sequence of objects without the elements whose key occurred earlier
RECURSIVE KeepFirstObjects(_, _)
KeepFirstObjects(objs, seen) ==
  IF objs = <<>> THEN <<>>
  ELSE IF Head(objs).key \in seen THEN KeepFirstObjects(Tail(objs), seen)
  ELSE <<Head(objs)>> \o KeepFirstObjects(Tail(objs), seen \cup {Head(objs).key})

\* a sequence of prefixes without the elements whose prefix occurred earlier
RECURSIVE KeepFirstPrefixes(_, _)
KeepFirstPrefixes(prefs, seen) ==
  IF prefs = <<>> THEN <<>>
  ELSE IF Head(prefs).prefix \in seen THEN KeepFirstPrefixes(Tail(prefs), seen)
  ELSE <<Head(prefs)>> \o KeepFirstPrefixes(Tail(prefs), seen \cup {Head(prefs).prefix})

\* C7: set replaces the entry of its key wholesale: the entry holds exactly
\* the given objects and prefixes in the given order, the given isTruncated
\* and continuationToken and lastFetched = now, and every other key is as it
\* was
C7_SetWholesale ==
  lastOp.op = "set" =>
    /\ DOMAIN cache = DOMAIN pre \cup {LastKey}
    /\ cache[LastKey] = EntryOf(lastOp.page, now)
    /\ \A k \in DOMAIN pre \ {LastKey} : cache[k] = pre[k]

\* a set of the empty page at instant 1 has replaced an entry that held
\* objects, next to the entry of another key
C7_Witness ==
  /\ lastOp.op = "set"
  /\ lastOp.page = PageEmpty
  /\ now = 1
  /\ LastKey \in DOMAIN pre
  /\ pre[LastKey].objects # <<>>
  /\ pre[LastKey].lastFetched = 0
  /\ getStats(cache).size = 2
  /\ cache[LastKey].objects = <<>>

\* C8: append on a key that has an entry leaves the existing objects (resp.
\* prefixes) followed by those of the page, without the elements whose key
\* (resp. prefix) occurred earlier, the isTruncated and continuationToken of
\* the page and lastFetched = now
C8_AppendMerge ==
  (lastOp.op = "append" /\ LastKey \in DOMAIN pre) =>
    /\ cache[LastKey].objects = KeepFirstObjects(pre[LastKey].objects \o lastOp.page.objects, {})
    /\ cache[LastKey].prefixes = KeepFirstPrefixes(pre[LastKey].prefixes \o lastOp.page.prefixes, {})
    /\ cache[LastKey].isTruncated = lastOp.page.isTruncated
    /\ cache[LastKey].continuationToken = lastOp.page.continuationToken
    /\ cache[LastKey].lastFetched = now

\* the last page has been appended to the first page: the object of the first
\* page keeps its place and its size, and the token is gone
C8_Witness ==
  /\ lastOp.op = "append"
  /\ lastOp.page = PageLast
  /\ LastKey \in DOMAIN pre
  /\ pre[LastKey] = EntryOf(PageFirst, 0)
  /\ now = 1
  /\ cache[LastKey] = [objects |-> <<O1, O2>>, prefixes |-> <<P1, P2>>, lastFetched |-> 1,
                       isTruncated |-> FALSE, continuationToken |-> Undefined]

\* C9: append on a key without entry leaves the cache as set with the same
\* arguments leaves it
C9_AppendAbsentIsSet ==
  (lastOp.op = "append" /\ LastKey \notin DOMAIN pre) =>
    cache = set(pre, now, lastOp.bucket, lastOp.page.objects, lastOp.page.prefixes,
                lastOp.page.isTruncated, lastOp.page.continuationToken, lastOp.prefix)

\* a page with a repeated key has been appended to a key without entry, next
\* to the entry of another key, and is stored as it came
C9_Witness ==
  /\ lastOp.op = "append"
  /\ lastOp.page = PageDup
  /\ LastKey \notin DOMAIN pre
  /\ getStats(pre).size = 1
  /\ cache[LastKey].objects = <<O2, O2>>

\* the page of the last call, appended once more at the same instant
AppendedAgain ==
  append(cache, now, lastOp.bucket, lastOp.page.objects, lastOp.page.prefixes,
         lastOp.page.isTruncated, lastOp.page.continuationToken, lastOp.prefix)

\* the second append of the page of the last call changes neither objects nor
\* prefixes, isTruncated or continuationToken
SecondAppendChangesNothing ==
  /\ AppendedAgain[LastKey].objects = cache[LastKey].objects
  /\ AppendedAgain[LastKey].prefixes = cache[LastKey].prefixes
  /\ AppendedAgain[LastKey].isTruncated = cache[LastKey].isTruncated
  /\ AppendedAgain[LastKey].continuationToken = cache[LastKey].continuationToken

\* no two objects of the page share a key and no two prefixes a prefix
PageHasNoRepeat(pg) ==
  /\ \A i, j \in 1..Len(pg.objects) : pg.objects[i].key = pg.objects[j].key => i = j
  /\ \A i, j \in 1..Len(pg.prefixes) : pg.prefixes[i].prefix = pg.prefixes[j].prefix => i = j

\* C10 as stated: from any cache state, append called twice with the same
\* key and page yields the objects, prefixes, isTruncated and
\* continuationToken that one call yields
C10_Original == lastOp.op = "append" => SecondAppendChangesNothing

\* C10 amended: the same, from any cache state in which the key has an
\* entry, and from any cache state for a page in which no two objects share a
\* key and no two prefixes share a prefix
C10_AppendIdempotent ==
  (lastOp.op = "append" /\ (LastKey \in DOMAIN pre \/ PageHasNoRepeat(lastOp.page))) =>
    SecondAppendChangesNothing

\* the last page has been appended to an entry that held a repeated object
C10_Witness ==
  /\ lastOp.op = "append"
  /\ lastOp.page = PageLast
  /\ LastKey \in DOMAIN pre
  /\ pre[LastKey].objects = <<O2, O2>>
  /\ cache[LastKey].objects = <<O2, O1x>>
  /\ AppendedAgain[LastKey].objects = <<O2, O1x>>

\* no two objects of the entry share a key and no two prefixes a prefix
EntryHasNoRepeat(e) ==
  /\ \A i, j \in 1..Len(e.objects) : e.objects[i].key = e.objects[j].key => i = j
  /\ \A i, j \in 1..Len(e.prefixes) : e.prefixes[i].prefix = e.prefixes[j].prefix => i = j

\* C11 as stated: after any append, whatever the prior cache state and the
\* page, the entry of the key holds no two objects with the same key and no
\* two prefixes with the same prefix
C11_Original == lastOp.op = "append" => EntryHasNoRepeat(cache[LastKey])

\* C11 amended: the same, after an append on a key that has an entry, and
\* after an append on a key without entry of a page in which no two objects
\* share a key and no two prefixes share a prefix
C11_NoRepeatAfterAppend ==
  (lastOp.op = "append" /\ (LastKey \in DOMAIN pre \/ PageHasNoRepeat(lastOp.page))) =>
    EntryHasNoRepeat(cache[LastKey])

\* a page with a repeated key and a repeated prefix has been appended to an
\* entry that held the same repeats, and the entry holds each once
C11_Witness ==
  /\ lastOp.op = "append"
  /\ lastOp.page = PageDup
  /\ LastKey \in DOMAIN pre
  /\ pre[LastKey].objects = <<O2, O2>>
  /\ pre[LastKey].prefixes = <<P2, P2>>
  /\ cache[LastKey].objects = <<O2>>
  /\ cache[LastKey].prefixes = <<P2>>

\* the entry (or page) has a continuation token if and only if it is truncated
TokenIffTruncated(e) == (e.continuationToken # Undefined) <=> e.isTruncated

\* the keys the last call has written
WrittenKeys == IF lastOp.op \in {"set", "append"} THEN {LastKey} ELSE {}

\* C12 as stated: in every cache state reached by set and append calls, every
\* entry has a continuation token if and only if its isTruncated is true
C12_Original == \A k \in DOMAIN cache : TokenIffTruncated(cache[k])

\* C12 amended: set and append store the isTruncated and the continuationToken
\* of the page they are given, and no cache call changes the two fields of an
\* entry it does not write; so when every entry had a token iff truncated
\* before a call and the page written has one iff truncated, every entry has
\* one iff truncated after the call
C12_FlagsAsWritten ==
  /\ \A k \in WrittenKeys :
       /\ cache[k].isTruncated = lastOp.page.isTruncated
       /\ cache[k].continuationToken = lastOp.page.continuationToken
  /\ \A k \in DOMAIN cache \ WrittenKeys :
       /\ k \in DOMAIN pre
       /\ cache[k].isTruncated = pre[k].isTruncated
       /\ cache[k].continuationToken = pre[k].continuationToken
  /\ ((\A k \in DOMAIN pre : TokenIffTruncated(pre[k]))
        /\ (WrittenKeys # {} => TokenIffTruncated(lastOp.page)))
       => \A k \in DOMAIN cache : TokenIffTruncated(cache[k])

\* the last page has been appended to a truncated entry, next to another
\* truncated entry: the token of the first is gone, the other keeps its own
C12_Witness ==
  /\ lastOp.op = "append"
  /\ lastOp.page = PageLast
  /\ LastKey \in DOMAIN pre
  /\ pre[LastKey].continuationToken = Tok1
  /\ cache[LastKey].continuationToken = Undefined
  /\ ~cache[LastKey].isTruncated
  /\ \E k \in DOMAIN cache \ {LastKey} : cache[k].continuationToken = Tok2
  /\ \A k \in DOMAIN cache : TokenIffTruncated(cache[k])

(***************************************************************************)
(* Properties of the materializer and of the read path of the tree         *)
(***************************************************************************)
\* the last step has returned the nodes of a listing: from the cache
\* (readHit) or from the result of listObjects (readDone)
HasRendered == lastOp.op \in {"readHit", "readDone"}

\* the entry or result the nodes of the last step were made from
RenderedFrom == IF lastOp.op = "readHit" THEN pre[LastKey] ELSE lastOp.page

\* the positions of the load-more nodes among the nodes returned
LoadMoreAt == {i \in 1..Len(ret) : ret[i].kind = "loadMore"}

\* C13: the nodes returned are one folder node per prefix in the order of
\* the prefixes, then one object node per object in the order of the
\* objects, then the load-more node if there is one; no folder node follows
\* an object node and nothing follows the load-more node
C13_FoldersObjectsLoadMore ==
  HasRendered =>
    LET e == RenderedFrom
        np == Len(e.prefixes)
        no == Len(e.objects)
    IN  /\ Len(ret) \in {np + no, np + no + 1}
        /\ \A i \in 1..np :
             /\ ret[i].kind = "folder"
             /\ ret[i].bucket = lastOp.bucket
             /\ ret[i].prefix = e.prefixes[i].prefix
        /\ \A j \in 1..no :
             /\ ret[np + j].kind = "object"
             /\ ret[np + j].bucket = lastOp.bucket
             /\ ret[np + j].key = e.objects[j].key
        /\ Len(ret) = np + no + 1 => ret[Len(ret)].kind = "loadMore"
        /\ \A i, j \in 1..Len(ret) : (ret[i].kind = "object" /\ ret[j].kind = "folder") => j < i
        /\ \A i \in LoadMoreAt : i = Len(ret)

\* an entry with prefixes p1, p2, objects o1, o2, truncated with token t1 has
\* been materialized from the cache as Folder(p1), Folder(p2), Object(o1),
\* Object(o2), LoadMore(t1)
C13_Witness ==
  /\ lastOp.op = "readHit"
  /\ pre[LastKey].prefixes = <<P1, P2>>
  /\ pre[LastKey].objects = <<O1, O2>>
  /\ pre[LastKey].isTruncated
  /\ pre[LastKey].continuationToken = Tok1
  /\ ret = << [kind |-> "folder", bucket |-> BucketB, prefix |-> P1.prefix],
              [kind |-> "folder", bucket |-> BucketB, prefix |-> P2.prefix],
              [kind |-> "object", bucket |-> BucketB, key |-> O1.key, size |-> 1],
              [kind |-> "object", bucket |-> BucketB, key |-> O2.key, size |-> 1],
              [kind |-> "loadMore", bucket |-> BucketB, prefix |-> lastOp.prefix,
               continuationToken |-> Tok1] >>

\* the load-more nodes returned are none, or one that carries the token of
\* the entry and the bucket and prefix of the read
LoadMoreCarriesToken ==
  /\ Cardinality(LoadMoreAt) <= 1
  /\ \A i \in LoadMoreAt :
       /\ ret[i].continuationToken = RenderedFrom.continuationToken
       /\ ret[i].bucket = lastOp.bucket
       /\ ret[i].prefix = lastOp.prefix

\* C14 as stated: the nodes returned hold a load-more node if and only if
\* isTruncated of the entry is true; there is at most one, and it carries the
\* token of the entry and the bucket and prefix of the read
C14_Original ==
  HasRendered =>
    /\ (LoadMoreAt # {}) <=> RenderedFrom.isTruncated
    /\ LoadMoreCarriesToken

\* C14 amended: the nodes returned hold a load-more node if and only if
\* isTruncated of the entry is true and the entry has a (non-empty)
\* continuationToken; there is at most one, and it carries the token of the
\* entry and the bucket and prefix of the read
C14_LoadMoreIffTruncatedWithToken ==
  HasRendered =>
    /\ (LoadMoreAt # {}) <=>
         (RenderedFrom.isTruncated /\ RenderedFrom.continuationToken \notin {Undefined, <<>>})
    /\ LoadMoreCarriesToken

\* a truncated result with a token has been materialized for the folder, and
\* its one load-more node carries the token, the bucket and the folder
C14_Witness ==
  /\ lastOp.op = "readDone"
  /\ lastOp.prefix = PrefixA
  /\ lastOp.page = PageFull
  /\ Cardinality(LoadMoreAt) = 1
  /\ ret[Len(ret)] = [kind |-> "loadMore", bucket |-> BucketB, prefix |-> PrefixA,
                       continuationToken |-> Tok1]

\* C15: an entry whose isTruncated is false yields no load-more node,
\* whatever its continuationToken
C15_NoLoadMoreWhenComplete ==
  (HasRendered /\ ~RenderedFrom.isTruncated) => LoadMoreAt = {}

\* an entry that is not truncated and holds a token has been materialized
\* from the cache without a load-more node
C15_Witness ==
  /\ lastOp.op = "readHit"
  /\ ~pre[LastKey].isTruncated
  /\ pre[LastKey].continuationToken = Tok1
  /\ Len(ret) = 2
  /\ LoadMoreAt = {}

\* the read arguments of a cache key
ArgsOfKey(k) == {a \in ReadArgs : getCacheKey(a.bucket, a.prefix) = k}

\* what a first-page read of the arguments of the last step would do now
ReadAgain ==
  IF Truthy(lastOp.prefix)
  THEN getPrefixContents(cache, now, lastOp.bucket, lastOp.prefix, Undefined)
  ELSE getBucketContents(cache, now, lastOp.bucket, Undefined)

\* C16: createNodes and createNodesFromCache return the same nodes for the
\* same objects, prefixes, isTruncated and continuationToken; a read served
\* from the cache leaves the cache as it was; and the nodes a first-page read
\* returns after its fetch are the nodes the next read of the key returns
\* from the cache
C16_SameNodesFromCache ==
  /\ \A k \in DOMAIN cache : \A a \in ArgsOfKey(k) :
       createNodes(a.bucket, cache[k], a.prefix) = createNodesFromCache(a.bucket, cache[k], a.prefix)
  /\ lastOp.op = "readHit" => cache = pre
  /\ (lastOp.op = "readDone" /\ ~Truthy(io.token)) =>
       /\ ReadAgain.done
       /\ ReadAgain.nodes = ret
       /\ ReadAgain.cache = cache

\* a first-page read of the folder has fetched a truncated page and returned
\* its five nodes, and a read of the folder now returns the same five from
\* the cache
C16_Witness ==
  /\ lastOp.op = "readDone"
  /\ io.token = Undefined
  /\ lastOp.prefix = PrefixA
  /\ lastOp.page = PageFull
  /\ Len(ret) = 5
  /\ ReadAgain.done
  /\ ReadAgain.nodes = ret

\* the entry of the key of the last step was there and fresh before the step
WasFresh == LastKey \in DOMAIN pre /\ now - pre[LastKey].lastFetched <= ttl

\* C17: a read without token consults the cache under the key of (bucket, "")
\* resp. (bucket, prefix); with a fresh entry it calls listObjects not at all
\* and returns the nodes of the entry; otherwise it calls listObjects once,
\* and when the call succeeds the result is in the cache under the same key
\* when the nodes of the result are returned
C17_CacheThenFetch ==
  /\ (lastOp.op \in {"readHit", "readMiss"} /\ ~Truthy(io.token)) =>
       /\ LastKey = lastOp.bucket \o <<":">> \o (IF lastOp.prefix = Undefined THEN <<>> ELSE lastOp.prefix)
       /\ IF WasFresh
          THEN /\ lastOp.op = "readHit"
               /\ io.calls = 0
               /\ ret = createNodesFromCache(lastOp.bucket, pre[LastKey], lastOp.prefix)
          ELSE /\ lastOp.op = "readMiss"
               /\ io.calls = 1
               /\ BagIn([bucket |-> lastOp.bucket, prefix |-> lastOp.prefix, token |-> io.token], pending)
  /\ (lastOp.op = "readDone" /\ ~Truthy(io.token)) =>
       /\ io.calls = 0
       /\ LastKey \in DOMAIN cache
       /\ cache[LastKey] = EntryOf(lastOp.page, now)
       /\ ret = createNodes(lastOp.bucket, lastOp.page, lastOp.prefix)

\* a read of the bucket root found a fresh entry and returned its nodes
\* without a call of listObjects, while a fetch for the folder was in flight
C17_Witness ==
  /\ lastOp.op = "readHit"
  /\ lastOp.prefix = Undefined
  /\ io.calls = 0
  /\ ret # <<>>
  /\ now = DEFAULT_TTL + 1
  /\ BagIn([bucket |-> BucketB, prefix |-> PrefixA, token |-> Undefined], pending)

(***************************************************************************)
(* Properties of the directory listing of the file system provider         *)
(***************************************************************************)
\* C18: readDirectory consults the cache the tree uses: with a fresh entry
\* under the key of the directory it returns the children of the entry
\* without a call of listObjects, and otherwise it fetches the listing and
\* leaves it in the cache under that key
C18_SharedCache ==
  lastOp.op = "readDirectory" =>
    IF WasFresh
    THEN /\ io.calls = 0
         /\ ret = readDirectory(pre[LastKey], lastOp.prefix)
    ELSE /\ LastKey \in DOMAIN cache
         /\ cache[LastKey] = EntryOf(lastOp.page, now)

\* the directory read, "" for the bucket root
LastDirectory == OrEmpty(lastOp.prefix)

\* C19: every name readDirectory returns is non-empty, holds no "/" and is
\* the one path segment that follows the prefix of the directory in an
\* object key or a common prefix of the listing
C19_DirectChildrenOnly ==
  lastOp.op = "readDirectory" =>
    \A i \in 1..Len(ret) :
      /\ ret[i].name # <<>>
      /\ ~includesSlash(ret[i].name)
      /\ \/ \E j \in 1..Len(lastOp.page.objects) :
              lastOp.page.objects[j].key = LastDirectory \o ret[i].name
         \/ \E j \in 1..Len(lastOp.page.prefixes) :
              lastOp.page.prefixes[j].prefix = LastDirectory \o ret[i].name \o <<"/">>

(***************************************************************************)
(* Properties of the command handlers                                      *)
(***************************************************************************)
\* C20: a command handler (create folder, upload files, delete object) that
\* has ended after a remote mutation of its own succeeded has invalidated
\* the cache
C20_InvalidateAfterMutation ==
  (cmd.pc = "done" /\ cmd.mutated > 0) => cmd.invalidated

(***************************************************************************)
(* The file system provider and the cache                                  *)
(***************************************************************************)
\* the calls of the provider that change the bucket
FsMutations == {"createDirectory", "writeFile", "delete", "rename"}

\* the cache keys of a path and of its ancestor folders
KeysOf(bucket, path) ==
  { getCacheKey(bucket, p) : p \in {path} \cup AncestorPrefixes(path) }

\* the keys a successful call of the provider affects
AffectedKeys ==
  KeysOf(lastOp.bucket, lastOp.prefix)
    \cup (IF lastOp.op = "rename" THEN KeysOf(lastOp.bucket, lastOp.to) ELSE {})

\* C21: when createDirectory, writeFile, delete or rename of the file system
\* provider has succeeded and handed its change event to the emitter, the
\* cache holds no entry for the affected key nor for any of its ancestors
\* (for rename: of the source and of the destination)
C21_FsMutationInvalidates ==
  lastOp.op \in FsMutations => AffectedKeys \cap DOMAIN cache = {}

(***************************************************************************)
(* The statistics of the cache                                             *)
(***************************************************************************)
\* the last call was set of an empty, complete listing on the empty cache
SetEmptyOnEmpty ==
  lastOp.op = "set" /\ pre = <<>> /\ lastOp.page = PageEmpty

\* C30: after set(b, [], [], false) on an empty cache getStats().size is 1
\* and get(b) returns an entry with empty objects and prefixes and isTruncated
\* false; after any set, getStats().size is the number of distinct keys
\* stored: the keys there were and the key of the set, counted once
C30_StatsCountKeys ==
  /\ SetEmptyOnEmpty =>
       /\ getStats(cache).size = 1
       /\ LET got == get(cache, now, lastOp.bucket, lastOp.prefix).result
          IN  /\ Len(got) = 1
              /\ got[1].objects = <<>>
              /\ got[1].prefixes = <<>>
              /\ got[1].isTruncated = FALSE
  /\ lastOp.op = "set" =>
       /\ getStats(cache).size = Cardinality(DOMAIN pre \cup {LastKey})
       /\ getStats(cache).keys = DOMAIN pre \cup {LastKey}

C30_Witness ==
  /\ SetEmptyOnEmpty
  /\ lastOp.bucket = BucketB
  /\ lastOp.prefix = Undefined
  /\ getStats(cache).size = 1

(***************************************************************************)
(* Reads of the same listing at the same time                              *)
(***************************************************************************)
\* the request of the read the last step belongs to
LastRead == [bucket |-> lastOp.bucket, prefix |-> lastOp.prefix, token |-> io.token]

\* C23: a read that misses issues one listObjects call of its own, also
\* while an equal call is awaited (no call is suppressed or shared); every
\* first-page call that resolves writes its result, so that the entry
\* (contents and lastFetched) is that of the write that came last, and shows
\* no error
C23_NoSingleFlight ==
  [][ /\ lastOp'.op = "readMiss" =>
           /\ pending' = pending (+) SetToBag({LastRead'})
           /\ io'.calls = 1
      /\ (lastOp'.op = "readDone" /\ ~Truthy(io'.token)) =>
           /\ pending' = pending (-) SetToBag({LastRead'})
           /\ BagIn(LastRead', pending)
           /\ cache' = mapSet(cache, LastKey', EntryOf(lastOp'.page, now'))
           /\ io'.errors = 0
    ]_vars

\* the second of two first-page reads of the listing of a/ that were awaiting
\* listObjects together has replaced the entry the first had written
C23_Witness ==
  /\ lastOp.op = "readDone"
  /\ lastOp.prefix = PrefixA
  /\ ~Truthy(io.token)
  /\ now = 0
  /\ LastKey \in DOMAIN pre
  /\ pre[LastKey] # cache[LastKey]
  /\ cache[LastKey] = EntryOf(lastOp.page, now)
  /\ pending = EmptyBag

(***************************************************************************)
(* Reads that fail                                                         *)
(***************************************************************************)
\* the last step was the rejection of the listObjects call of a read
ReadFailed == lastOp.op \in ReadErrors

\* the keys among ks whose entry in c is older than the TTL at time t
Expired(c, ks, t) == {k \in ks \cap DOMAIN c : t - c[k].lastFetched > ttl}

\* a read has just missed and its listObjects call is the next to be rejected
MissThenFailure == lastOp.op = "readMiss" /\ ReadFailed' /\ LastRead' = LastRead

\* C24 as stated: the cache after a failed read equals the cache before the
\* read started
C24_Original ==
  [][ MissThenFailure => cache' = pre ]_vars

\* C24 amended: the rejection of listObjects changes nothing in the cache;
\* the cache after a failed read is the cache before the read started
\* without the entry of the read's own key if that entry had expired (the
\* lookup the read starts with removes it)
C24_FailureStoresNothing ==
  [][ /\ ReadFailed' => cache' = cache
      /\ MissThenFailure => cache' = mapDelete(pre, Expired(pre, {LastKey}, now))
    ]_vars

\* a read of a key whose entry had expired has failed, other entries are cached
C24_Witness ==
  /\ ReadFailed
  /\ now = DEFAULT_TTL + 1
  /\ LastKey \notin DOMAIN cache
  /\ cache # <<>>
  /\ cache = pre

\* C25: a read issues at most one listObjects call; when the call is
\* rejected the read shows one error message, returns no node, fires no
\* event and issues no further call: its request is gone and no other has
\* come
C25_FailureReportedNoRetry ==
  [][ /\ lastOp'.op \in {"readHit", "readMiss"} =>
           /\ io'.calls <= 1
           /\ BagCardinality(pending') = BagCardinality(pending) + io'.calls
      /\ ReadFailed' =>
           /\ io'.calls = 0
           /\ io'.errors = 1
           /\ io'.events = 0
           /\ ret' = <<>>
           /\ BagIn(LastRead', pending)
           /\ pending' = pending (-) SetToBag({LastRead'})
    ]_vars

\* getChildren of a folder has failed for refused credentials
C25_Witness ==
  /\ lastOp.op = "readAuthFailure"
  /\ lastOp.prefix = PrefixA
  /\ ~Truthy(io.token)
  /\ io.errors = 1
  /\ ret = <<>>
  /\ pending = EmptyBag

\* C26: after a read has failed because the bucket or prefix is not found,
\* the cache holds no entry for the key of the read
C26_NotFoundInvalidates ==
  lastOp.op = "readNotFound" => LastKey \notin DOMAIN cache

\* C27: when the listObjects call of loadMore is rejected for its token, the
\* read shows the error and issues a first-page listObjects call for the same
\* key, which is then awaited
C27_BadTokenFallsBack ==
  lastOp.op = "readBadToken" =>
    /\ io.errors = 1
    /\ io.calls = 1
    /\ BagIn([bucket |-> lastOp.bucket, prefix |-> lastOp.prefix, token |-> Undefined], pending)

(***************************************************************************)
(* Reads under way when a command changes the bucket                       *)
(***************************************************************************)
\* the keys whose entry a read would serve now although it was fetched
\* before the last mutation
ServedStale == {k \in stale.keys \cap DOMAIN cache : now - cache[k].lastFetched <= ttl}

\* C22: once a command has changed the bucket and has invalidated, no read of
\* the affected key or of an ancestor key is served a listing that was
\* fetched before the change, whatever reads were awaiting listObjects when
\* the change was made
C22_FreshAfterInvalidation ==
  (cmd.pc = "done" /\ cmd.invalidated) =>
    KeysOf(cmd.bucket, cmd.prefix) \cap ServedStale = {}

(***************************************************************************)
(* Cancellation                                                            *)
(***************************************************************************)
\* C28: once the user has requested cancellation during the upload of a
\* file, the handler starts no further upload and ends with an error or
\* cancellation message instead of the success message
C28_CancelStopsUpload ==
  [][ (cancelRequested /\ cmd.kind = "uploadFile" /\ cmd.pc = "remote" /\ cmd' # cmd) =>
        (cmd'.pc = "done" /\ io'.errors = 1)
    ]_vars

\* the operation was invoked for the first k items, in index order, once each
InvokedInOrder(b) ==
  b.invoked = [k \in 1..Len(b.invoked) |-> <<b.items[k], k - 1>>]

\* C29: withProgressBatch invokes the operation for the items in index
\* order, one at a time: while it awaits the operation for item i, the
\* operation has resolved for the items before it and was invoked for none
\* after it. The token is tested before each item: when the test before an
\* item finds it cancelled, the operation is invoked for no further item, the
\* batch fails with "Operation cancelled", and the invocations made remain;
\* when it is not cancelled the operation is invoked for the item
C29_BatchInOrderUntilCancelled ==
  [][ /\ InvokedInOrder(batch')
      /\ batch'.pc = "await" => Len(batch'.invoked) = batch'.i + 1
      /\ batch'.outcome = "resolved" => Len(batch'.invoked) = Len(batch'.items)
      /\ (batch.pc = "await" /\ batch' # batch /\ batch'.outcome # "rejected") =>
           IF batch.i + 1 < Len(batch.items)
           THEN IF cancelRequested
                THEN /\ batch'.pc = "done"
                     /\ batch'.outcome = "Operation cancelled"
                     /\ batch'.invoked = batch.invoked
                ELSE /\ batch'.pc = "await"
                     /\ batch'.invoked = Append(batch.invoked, <<batch.items[batch.i + 2], batch.i + 1>>)
           ELSE /\ batch'.outcome = "resolved"
                /\ batch'.invoked = batch.invoked
    ]_vars

\* C29 as stated: once the token is cancelled the operation is invoked for
\* no later item and the batch, unless the operation under way rejects,
\* fails with "Operation cancelled"
C29_Original ==
  [][ (batch.pc = "await" /\ cancelRequested /\ batch' # batch /\ batch'.outcome # "rejected") =>
        /\ batch'.invoked = batch.invoked
        /\ batch'.outcome = "Operation cancelled"
    ]_vars

\* a batch of three items was cancelled while its second item was processed
C29_Witness ==
  /\ batch.pc = "done"
  /\ batch.outcome = "Operation cancelled"
  /\ batch.items = <<"x", "y", "x">>
  /\ batch.invoked = <<<<"x", 0>>, <<"y", 1>>>>
  /\ batch.i = 2

(***************************************************************************)
(* Clearing the cache and refresh                                          *)
(***************************************************************************)
\* the last step was invalidateAll, refresh without element, the refreshAll
\* command or deactivate
ClearedAll ==
  \/ lastOp.op \in {"invalidateAll", "refreshAll", "deactivate"}
  \/ lastOp.op = "refresh" /\ lastOp.node.kind = "none"

\* C31: after invalidateAll, after a refresh without element, after the
\* refreshAll command and after deactivate the cache holds no entry of any
\* bucket and getStats().size is 0
C31_InvalidateAllEmpties ==
  ClearedAll => (cache = <<>> /\ getStats(cache).size = 0 /\ getStats(cache).keys = {})

\* refreshAll has cleared a cache that held listings of two buckets
C31_Witness ==
  /\ lastOp.op = "refreshAll"
  /\ \E k1, k2 \in DOMAIN pre : BucketOf(k1) = BucketB /\ BucketOf(k2) = BucketBB
  /\ cache = <<>>

\* the entries of c whose key belongs to none of the keys ks
Without(c, ks) == [k \in DOMAIN c \ ks |-> c[k]]

\* C37: refresh(element) fires one change event, after it has invalidated by
\* the kind of the element: for a bucket node the entries of that bucket and
\* no other go, for a folder node the entry of the folder and what
\* invalidate(bucket, prefix) removes with it, without element every entry
\* goes, for an object or load-more node the cache stays as it was
C37_RefreshByKind ==
  lastOp.op = "refresh" =>
    /\ io.events = 1
    /\ LET n == lastOp.node IN
       CASE n.kind = "bucket" ->
              cache = Without(pre, {k \in DOMAIN pre : BucketOf(k) = n.bucket})
         [] n.kind = "prefix" ->
              /\ getCacheKey(n.bucket, n.prefix) \notin DOMAIN cache
              /\ cache = invalidate(pre, n.bucket, n.prefix)
              /\ \A k \in DOMAIN pre : BucketOf(k) # n.bucket => k \in DOMAIN cache
         [] n.kind = "none" -> cache = <<>>
         [] OTHER -> cache = pre

\* refresh of a load-more node has left a cache of three entries as it was
C37_Witness ==
  /\ lastOp.op = "refresh"
  /\ lastOp.node.kind = "loadMore"
  /\ Cardinality(DOMAIN cache) = 3
  /\ cache = pre
  /\ io.events = 1

\* C34: invalidate(bucket, "") leaves the cache that invalidate(bucket)
\* leaves: no entry of the bucket, whatever its prefix, and every entry of
\* the other buckets
C34_EmptyPrefixIsBucketWide ==
  (lastOp.op = "invalidate" /\ lastOp.prefix = <<>>) =>
    /\ cache = invalidate(pre, lastOp.bucket, Undefined)
    /\ cache = Without(pre, {k \in DOMAIN pre : BucketOf(k) = lastOp.bucket})

\* invalidate(b, "") has removed the listing of a folder of b and left a
\* listing of another bucket
C34_Witness ==
  /\ lastOp.op = "invalidate"
  /\ lastOp.prefix = <<>>
  /\ lastOp.bucket = BucketB
  /\ getCacheKey(BucketB, PrefixA) \in DOMAIN pre
  /\ getCacheKey(BucketB, <<>>) \in DOMAIN pre
  /\ DOMAIN cache = {getCacheKey(BucketBB, Undefined)}

(***************************************************************************)
(* append on entries that are expired, absent or further along             *)
(***************************************************************************)
\* the last call was append on an entry that was older than the TTL
AppendedToExpired ==
  /\ lastOp.op = "append"
  /\ LastKey \in DOMAIN pre
  /\ now - pre[LastKey].lastFetched > ttl

\* C33: append on an entry older than the TTL keeps the expired objects and
\* prefixes, adds the page to them and stamps the entry with the time of the
\* call, so that a get that follows returns the entry, expired objects
\* included
C33_AppendRevivesExpired ==
  AppendedToExpired =>
    /\ cache[LastKey].objects = uniqueObjects(pre[LastKey].objects \o lastOp.page.objects)
    /\ cache[LastKey].prefixes = uniquePrefixes(pre[LastKey].prefixes \o lastOp.page.prefixes)
    /\ \A i \in 1..Len(pre[LastKey].objects) :
         \E j \in 1..Len(cache[LastKey].objects) :
           cache[LastKey].objects[j] = pre[LastKey].objects[i]
    /\ cache[LastKey].lastFetched = now
    /\ get(cache, now, lastOp.bucket, lastOp.prefix).result = <<cache[LastKey]>>

\* an empty page was appended to an expired entry that holds an object
C33_Witness ==
  /\ AppendedToExpired
  /\ pre[LastKey].objects = <<O1>>
  /\ lastOp.page = PageEmpty
  /\ cache[LastKey].objects = <<O1>>
  /\ cache[LastKey].lastFetched = DEFAULT_TTL + 1

\* the last step stored a load-more page for a key that had no entry
OrphanPageStored ==
  /\ lastOp.op = "readDone"
  /\ Truthy(io.token)
  /\ LastKey \notin DOMAIN pre

\* C32: a load-more page that arrives for a key without entry is stored
\* alone as the entry of the key, stamped with the time of arrival; a tree
\* read of the key that follows is served from the cache and shows the nodes
\* of that page only
C32_OrphanPageBecomesEntry ==
  OrphanPageStored =>
    /\ cache = mapSet(pre, LastKey, EntryOf(lastOp.page, now))
    /\ ReadAgain.done
    /\ ReadAgain.cache = cache
    /\ ReadAgain.nodes = createNodesFromCache(lastOp.bucket, lastOp.page, lastOp.prefix)

\* the last page of a folder arrived after the entry of the folder had
\* expired and is all the cache holds for it
C32_Witness ==
  /\ OrphanPageStored
  /\ now = DEFAULT_TTL + 1
  /\ lastOp.prefix = PrefixA
  /\ lastOp.page = PageLast
  /\ cache[LastKey].objects = PageLast.objects
  /\ cache[LastKey].lastFetched = now
  /\ ReadAgain.done

\* the keys of a sequence of objects
KeysIn(objs) == {objs[i].key : i \in 1..Len(objs)}

\* C35: when a read has stored its page, the isTruncated and the
\* continuationToken of the entry are those of that page, whatever the entry
\* said before (a complete entry becomes truncated again when the page is
\* truncated); a load-more page removes no object key and no prefix from the
\* entry
C35_FlagsOfLastWrite ==
  lastOp.op = "readDone" =>
    /\ cache[LastKey].isTruncated = lastOp.page.isTruncated
    /\ cache[LastKey].continuationToken = lastOp.page.continuationToken
    /\ (Truthy(io.token) /\ LastKey \in DOMAIN pre) =>
         /\ KeysIn(pre[LastKey].objects) \subseteq KeysIn(cache[LastKey].objects)
         /\ Len(cache[LastKey].objects) >= Len(pre[LastKey].objects)
         /\ {pre[LastKey].prefixes[i] : i \in 1..Len(pre[LastKey].prefixes)}
              \subseteq {cache[LastKey].prefixes[i] : i \in 1..Len(cache[LastKey].prefixes)}

\* a truncated page of a load-more read has arrived after the entry had
\* become complete: the entry is truncated again, with the token of the page
C35_Witness ==
  /\ lastOp.op = "readDone"
  /\ Truthy(io.token)
  /\ now = 0
  /\ LastKey \in DOMAIN pre
  /\ pre[LastKey].isTruncated = FALSE
  /\ pre[LastKey].objects = <<O1x, O2>>
  /\ lastOp.page = PageFull
  /\ cache[LastKey].isTruncated = TRUE
  /\ cache[LastKey].continuationToken = Tok1
  /\ cache[LastKey].objects = <<O1x, O2>>

(***************************************************************************)
(* loadMore                                                                *)
(***************************************************************************)
\* C36: loadMore issues one listObjects call for the bucket, prefix and
\* token of its node, also when the entry of the key is fresh; when the call
\* resolves the page is appended to the cache and then one change event is
\* fired; when it rejects no event is fired and the cache stays as it is
C36_LoadMoreAlwaysFetches ==
  [][ /\ (lastOp'.op \in {"readHit", "readMiss"} /\ Truthy(io'.token)) =>
           /\ lastOp'.op = "readMiss"
           /\ io'.calls = 1
           /\ pending' = pending (+) SetToBag({LastRead'})
      /\ (lastOp'.op = "readDone" /\ Truthy(io'.token)) =>
           /\ cache' = append(cache, now, lastOp'.bucket, lastOp'.page.objects,
                              lastOp'.page.prefixes, lastOp'.page.isTruncated,
                              lastOp'.page.continuationToken, lastOp'.prefix)
           /\ io'.events = 1
           /\ io'.errors = 0
      /\ (ReadFailed' /\ Truthy(io'.token)) =>
           /\ io'.events = 0
           /\ cache' = cache
    ]_vars

\* loadMore of a node of folder a/ awaits listObjects although the entry of
\* the folder is fresh
C36_Witness ==
  /\ lastOp.op = "readMiss"
  /\ lastOp.prefix = PrefixA
  /\ io.token = Tok1
  /\ io.calls = 1
  /\ LastKey \in DOMAIN cache
  /\ now - cache[LastKey].lastFetched <= ttl
  /\ BagIn(LastRead, pending)

(***************************************************************************)
(* writeFile and the change events of the provider                         *)
(***************************************************************************)
\* the last call of writeFile queued no event and issued no putObject
NothingWritten ==
  /\ lastOp.detail.puts = 0
  /\ io.events = 0
  /\ lastOp.op = "fsFailed"

RECURSIVE Concat(_)
Concat(batches) ==
  IF batches = <<>> THEN <<>> ELSE Head(batches) \o Concat(Tail(batches))

\* every event handed to _fireSoon has been emitted once or is in the
\* buffer, in the order handed in; the timer runs while events are buffered
DeliveredOnceInOrder ==
  /\ Concat(fs.emitted) \o fs.buffered = fs.handed
  /\ fs.armed = (fs.buffered # <<>>)

\* a call of _fireSoon starts the timer anew; the timer fires 5 ms after the
\* last call and then all buffered events are emitted as one batch and the
\* buffer is empty
RestartThenOneBatch ==
  /\ fs'.handed # fs.handed => (fs'.armed /\ fs'.elapsed = 0 /\ fs'.emitted = fs.emitted)
  /\ fs'.emitted # fs.emitted =>
       /\ fs.elapsed = FireDelay
       /\ fs'.emitted = Append(fs.emitted, fs.buffered)
       /\ fs'.buffered = <<>>
       /\ fs'.handed = fs.handed

\* C38: every event handed to _fireSoon is emitted exactly once, in the
\* order handed in: each call restarts the one timer of 5 ms, the timer emits
\* all buffered events as one batch and empties the buffer, and once the
\* calls have stopped every buffered event is emitted
C38_EventsDeliveredOnce ==
  /\ []DeliveredOnceInOrder
  /\ [][RestartThenOneBatch]_vars
  /\ (fs.buffered # <<>>) ~> (fs.buffered = <<>> /\ Concat(fs.emitted) = fs.handed)

\* the events of two calls were emitted as one batch
C38_Witness ==
  /\ fs.emitted = << <<Event("Created", KeyACX), Event("Deleted", KeyACX)>> >>
  /\ fs.buffered = <<>>
  /\ ~fs.armed
  /\ fs.handed = <<Event("Created", KeyACX), Event("Deleted", KeyACX)>>

====
